---- MODULE Spec2Model ----
(***************************************************************************)
(* WLAN-Scanner: the coverage-map and interference engine.                 *)
(*                                                                         *)
(*   app/heatmap_generator.py      colour mapper, path-loss model, grid    *)
(*                                 builder, external-source triangulator   *)
(*   app/interference_analyzer.py  device grouper, channel/overlap         *)
(*                                 analyzer, problem areas                 *)
(*                                                                         *)
(* Floating-point dBm values are carried as integers in hundredths of a    *)
(* dBm (CentiDb per dBm), computed exactly and floored once at the end of  *)
(* each formula.  Strings (SSID, BSSID) are sequences of one-character     *)
(* strings so that startswith, replace, split and upper are computed.      *)
(***************************************************************************)
EXTENDS Integers, Sequences, FiniteSets, TLC

VARIABLES
    \* colour mapper: two signals and the colours returned for them
    signal_a, signal_b, color_a, color_b, cpc,
    \* interference analyzer (analyze_floor over a flat list of detections)
    networks, target_prefixes, strong_interferers, overlap_interference, apc,
    \* problem areas (InterferenceAnalyzer._find_problem_areas)
    scan_points, area_prefixes, problem_areas, ppc,
    \* external-source triangulator
    measurements, source_location, tpc,
    \* signal-strength grid builder (HeatmapGenerator)
    width, height, ap_locations, signal_grid, row, gpc,
    \* device grouper applied to two detections (InterferenceAnalyzer._get_device_id)
    bssid_a, bssid_b, device_id_a, device_id_b, device_groups, dpc,
    \* a survey: analyze_floor, generate_heatmap, generate_interference_heatmap on one floor
    survey_points, target_network_name, report, interfering_sources, identified, pixmap, svpc,
    \* rescan of a survey point (InteractiveMapView._rescan_scan_point)
    floor_scan_points, before_rescan, rescanned, next_id, rescans, rpc,
    \* progress reported by generate_heatmap to its status_callback
    status_callback, ticks,
    \* one call of HeatmapGenerator._estimate_ap_source_location
    est_measurements, estimate, epc,
    \* one call of InterferenceAnalyzer._auto_detect_target_network
    configured_prefixes, detections, detected, adpc,
    \* the map view and its cached heatmap overlay (InteractiveMapView)
    floors, current_floor, heatmap_enabled, current_heatmap_network, heatmap_pixmap, overlay, generator_size, generations, events,
    \* two runs of coverage-map generation on one HeatmapGenerator
    run, first_run

colorVars == <<signal_a, signal_b, color_a, color_b, cpc>>
netVars   == <<networks, target_prefixes, strong_interferers, overlap_interference, apc>>
areaVars  == <<scan_points, area_prefixes, problem_areas, ppc>>
triVars   == <<measurements, source_location, tpc>>
gridVars  == <<width, height, ap_locations, signal_grid, row, gpc>>
devVars == <<bssid_a, bssid_b, device_id_a, device_id_b, device_groups, dpc>>
surveyVars == <<survey_points, target_network_name, report, interfering_sources, identified, pixmap, svpc>>
rescanVars == <<floor_scan_points, before_rescan, rescanned, next_id, rescans, rpc>>
progVars == <<status_callback, ticks>>
estVars == <<est_measurements, estimate, epc>>
autoVars == <<configured_prefixes, detections, detected, adpc>>
viewVars == <<floors, current_floor, heatmap_enabled, current_heatmap_network, heatmap_pixmap, overlay, generator_size, generations, events>>
repeatVars == <<run, first_run>>
vars      == <<colorVars, netVars, areaVars, triVars, gridVars,
               devVars,
               surveyVars,
               rescanVars,
               progVars,
               estVars,
               autoVars,
               viewVars,
               repeatVars>>

(***************************************************************************)
(* Arithmetic helpers                                                      *)
(***************************************************************************)
CentiDb == 100

Max2(a, b) == IF a >= b THEN a ELSE b
Min2(a, b) == IF a <= b THEN a ELSE b
Abs(a) == IF a < 0 THEN -a ELSE a

SetMax(S) == CHOOSE m \in S : \A n \in S : n <= m
SetMin(S) == CHOOSE m \in S : \A n \in S : m <= n

RECURSIVE SqrtSearch(_, _, _)
SqrtSearch(n, lo, hi) ==
    IF lo >= hi THEN lo
    ELSE LET mid == (lo + hi + 1) \div 2
         IN  IF mid * mid <= n THEN SqrtSearch(n, mid, hi)
                               ELSE SqrtSearch(n, lo, mid - 1)

\* floor(sqrt(n)) for 0 <= n < 2^31
ISqrt(n) == SqrtSearch(n, 0, 46340)

RECURSIVE SeqSum(_)
SeqSum(s) == IF s = <<>> THEN 0 ELSE Head(s) + SeqSum(Tail(s))

Range(s) == {s[i] : i \in DOMAIN s}

\* ---------------------------------------------------------------------------
\* Python floats (IEEE 754 binary64, round to nearest, ties to even), as far as
\* _estimate_ap_source_location and _signal_to_color_gradient use them:
\* products with a whole number, sums, differences, one division, int().  A significand has 53 bits and does not
\* fit a machine integer of the model checker, so a natural number is a
\* sequence of limbs in base 2^15, least significant first, without leading
\* zero limbs (zero is the empty sequence).
\* ---------------------------------------------------------------------------
Limb == 32768
Precision == 53

RECURSIVE BigNorm(_)
BigNorm(a) ==
    IF a = <<>> THEN <<>>
    ELSE IF a[Len(a)] = 0 THEN BigNorm(SubSeq(a, 1, Len(a) - 1))
    ELSE a

RECURSIVE BigFromNat(_)
BigFromNat(n) ==
    IF n = 0 THEN <<>> ELSE <<n % Limb>> \o BigFromNat(n \div Limb)

RECURSIVE BigAddC(_, _, _)
BigAddC(a, b, carry) ==
    IF a = <<>> /\ b = <<>> THEN (IF carry = 0 THEN <<>> ELSE <<carry>>)
    ELSE LET s == (IF a = <<>> THEN 0 ELSE Head(a))
                  + (IF b = <<>> THEN 0 ELSE Head(b)) + carry
         IN  <<s % Limb>> \o BigAddC(IF a = <<>> THEN <<>> ELSE Tail(a),
                                     IF b = <<>> THEN <<>> ELSE Tail(b),
                                     s \div Limb)

BigAdd(a, b) == BigAddC(a, b, 0)

\* a - b for a >= b
RECURSIVE BigSubB(_, _, _)
BigSubB(a, b, borrow) ==
    IF a = <<>> THEN <<>>
    ELSE LET diff == Head(a) - (IF b = <<>> THEN 0 ELSE Head(b)) - borrow
         IN  <<diff % Limb>> \o BigSubB(Tail(a),
                                        IF b = <<>> THEN <<>> ELSE Tail(b),
                                        IF diff < 0 THEN 1 ELSE 0)

BigSub(a, b) == BigNorm(BigSubB(a, b, 0))

\* -1, 0, 1 as a is below, equal to, above b
RECURSIVE BigCmpFrom(_, _, _)
BigCmpFrom(a, b, i) ==
    IF i = 0 THEN 0
    ELSE IF a[i] < b[i] THEN -1
    ELSE IF a[i] > b[i] THEN 1
    ELSE BigCmpFrom(a, b, i - 1)

BigCmp(a, b) ==
    IF Len(a) < Len(b) THEN -1
    ELSE IF Len(a) > Len(b) THEN 1
    ELSE BigCmpFrom(a, b, Len(a))

\* a * k for 0 <= k < 2^15
RECURSIVE BigMulC(_, _, _)
BigMulC(a, k, carry) ==
    IF a = <<>> THEN BigFromNat(carry)
    ELSE LET p == Head(a) * k + carry
         IN  <<p % Limb>> \o BigMulC(Tail(a), k, p \div Limb)

BigMulSmall(a, k) == IF k = 0 THEN <<>> ELSE BigMulC(a, k, 0)

RECURSIVE ShiftLeft(_, _)
ShiftLeft(a, k) ==
    IF a = <<>> \/ k = 0 THEN a
    ELSE IF k >= 15 THEN ShiftLeft(<<0>> \o a, k - 15)
    ELSE BigMulC(a, 2 ^ k, 0)

\* floor(a / 2^k) for 0 < k < 15
RECURSIVE ShiftRightBits(_, _)
ShiftRightBits(a, k) ==
    IF a = <<>> THEN <<>>
    ELSE <<(Head(a) \div (2 ^ k))
           + (IF Len(a) > 1 THEN (a[2] % (2 ^ k)) * (2 ^ (15 - k)) ELSE 0)>>
         \o ShiftRightBits(Tail(a), k)

RECURSIVE ShiftRight(_, _)
ShiftRight(a, k) ==
    IF a = <<>> \/ k = 0 THEN a
    ELSE IF k >= 15 THEN ShiftRight(Tail(a), k - 15)
    ELSE BigNorm(ShiftRightBits(a, k))

RECURSIVE NatBits(_)
NatBits(n) == IF n = 0 THEN 0 ELSE 1 + NatBits(n \div 2)

BitLen(a) == IF a = <<>> THEN 0 ELSE 15 * (Len(a) - 1) + NatBits(a[Len(a)])

IsOdd(a) == a # <<>> /\ a[1] % 2 = 1

\* greatest k in lo..hi with k * d <= r, given lo * d <= r
RECURSIVE DigitBetween(_, _, _, _)
DigitBetween(r, d, lo, hi) ==
    IF lo = hi THEN lo
    ELSE LET mid == (lo + hi + 1) \div 2
         IN  IF BigCmp(BigMulSmall(d, mid), r) <= 0
             THEN DigitBetween(r, d, mid, hi)
             ELSE DigitBetween(r, d, lo, mid - 1)

\* floor(r / d) for r < d * 2^15 and d with a leading limb of 15 bits: the two
\* leading limbs of r over the leading limb of d plus one give a digit that is
\* at most 6 too small
DigitOf(r, d) ==
    LET n     == Len(d)
        top   == (IF Len(r) > n THEN r[n + 1] ELSE 0) * Limb
                 + (IF Len(r) >= n THEN r[n] ELSE 0)
        guess == top \div (d[n] + 1)
    IN  DigitBetween(r, d, guess, Min2(guess + 7, Limb - 1))

\* long division in base 2^15: from the quotient q and remainder r of some n
\* by d, the quotient and remainder of n * 2^(15 * i) by d
RECURSIVE LongDivide(_, _, _, _)
LongDivide(q, r, d, i) ==
    IF i = 0 THEN <<q, r>>
    ELSE LET shifted == ShiftLeft(r, 15)
             digit   == DigitOf(shifted, d)
         IN  LongDivide(BigNorm(<<digit>> \o q),
                        BigSub(shifted, BigMulSmall(d, digit)), d, i - 1)

\* A float that is not negative: the value m * 2^e, with m = 0 or m of exactly
\* 53 bits.  (The exponents of this computation stay far inside the normal
\* range of binary64, so there are no subnormals, infinities or NaNs.)
FloatZero == [m |-> <<>>, e |-> 0]

\* the float nearest to m * 2^e, ties to the even significand
RoundToFloat(m, e) ==
    LET n == BitLen(m) IN
    IF n = 0 THEN FloatZero
    ELSE IF n <= Precision THEN [m |-> ShiftLeft(m, Precision - n), e |-> e - (Precision - n)]
    ELSE LET k    == n - Precision
             q    == ShiftRight(m, k)
             r    == BigSub(m, ShiftLeft(q, k))
             half == ShiftLeft(<<1>>, k - 1)
             c    == BigCmp(r, half)
             up   == c > 0 \/ (c = 0 /\ IsOdd(q))
             q1   == IF up THEN BigAdd(q, <<1>>) ELSE q
         IN  IF BitLen(q1) > Precision
             THEN [m |-> ShiftRight(q1, 1), e |-> e + k + 1]
             ELSE [m |-> q1, e |-> e + k]

\* x * w for a coordinate x that is a whole number below 2^15 (int * float,
\* or float * float: the conversion of such an x to float is exact)
FloatMulNat(x, w) == RoundToFloat(BigMulSmall(w.m, x), w.e)

\* a + b  (float.__add__)
FloatAdd(a, b) ==
    IF a.m = <<>> THEN b
    ELSE IF b.m = <<>> THEN a
    ELSE LET e == Min2(a.e, b.e)
         IN  RoundToFloat(BigAdd(ShiftLeft(a.m, a.e - e), ShiftLeft(b.m, b.e - e)), e)

\* a / b for b > 0  (float.__truediv__).  With b.m shifted to 60 bits, a.m is
\* below the divisor; five limbs of quotient leave at least 67 - 8 bits, and a
\* sticky bit for the remainder decides the rounding.
FloatDiv(a, b) ==
    IF a.m = <<>> THEN FloatZero
    ELSE LET qr == LongDivide(<<>>, a.m, ShiftLeft(b.m, 7), 5)
             m  == BigAdd(ShiftLeft(qr[1], 1), IF qr[2] = <<>> THEN <<>> ELSE <<1>>)
         IN  RoundToFloat(m, a.e - b.e - 69)

\* float(n) for a whole number n >= 0
FloatOfNat(n) == RoundToFloat(BigFromNat(n), 0)

\* a - b for a >= b >= 0  (float.__sub__)
FloatSubMag(a, b) ==
    IF b.m = <<>> THEN a
    ELSE LET e == Min2(a.e, b.e)
         IN  RoundToFloat(BigSub(ShiftLeft(a.m, a.e - e), ShiftLeft(b.m, b.e - e)), e)

\* int(a) for 0 <= a < 2^15  (float.__int__ truncates)
FloatTrunc(a) ==
    LET whole == IF a.e >= 0 THEN ShiftLeft(a.m, a.e) ELSE ShiftRight(a.m, 0 - a.e)
    IN  IF whole = <<>> THEN 0 ELSE whole[1]

(***************************************************************************)
(* Colour mapper: HeatmapGenerator._signal_to_color_gradient               *)
(***************************************************************************)
\* (signal_dBm, red, green, blue)
color_points ==
    << <<-20, 0, 255, 0>>,
       <<-45, 255, 255, 0>>,
       <<-60, 255, 165, 0>>,
       <<-75, 255, 0, 0>>,
       <<-90, 0, 0, 255>> >>

\* factor = (signal_strength - signal2) / (signal1 - signal2) in floats, for
\* s2 <= s <= s1 < 0 in hundredths of a dBm (s1 and s2 whole dBm): the float
\* signal_strength is s / 100 correctly rounded
InterpolationFactor(s, s1, s2) ==
    FloatDiv(FloatSubMag(FloatOfNat((0 - s2) \div CentiDb),
                         FloatDiv(FloatOfNat(0 - s), FloatOfNat(CentiDb))),
             FloatOfNat((s1 - s2) \div CentiDb))

\* int(c2 + factor * (c1 - c2)), in floats
InterpolateChannel(factor, c1, c2) ==
    IF c1 >= c2
    THEN FloatTrunc(FloatAdd(FloatOfNat(c2), FloatMulNat(c1 - c2, factor)))
    ELSE FloatTrunc(FloatSubMag(FloatOfNat(c2), FloatMulNat(c2 - c1, factor)))

Interpolate(s, s1, s2, c1, c2) ==
    IF s1 = s2 THEN c2
    ELSE InterpolateChannel(InterpolationFactor(s, s1, s2), c1, c2)

RECURSIVE GradientFrom(_, _)
GradientFrom(s, i) ==
    IF i > Len(color_points) - 1 THEN <<0, 0, 255>>
    ELSE LET p1 == color_points[i]
             p2 == color_points[i + 1]
             s1 == p1[1] * CentiDb
             s2 == p2[1] * CentiDb
         IN  IF s1 >= s /\ s >= s2
             THEN << Interpolate(s, s1, s2, p1[2], p2[2]),
                     Interpolate(s, s1, s2, p1[3], p2[3]),
                     Interpolate(s, s1, s2, p1[4], p2[4]) >>
             ELSE GradientFrom(s, i + 1)

\* s in hundredths of a dBm
signal_to_color_gradient(s) ==
    LET clamped == Max2(-95 * CentiDb, Min2(-15 * CentiDb, s))
    IN  GradientFrom(clamped, 1)

\* Position of a colour along the weak-signal gradient
\* green (0) -> yellow (255) -> orange (345) -> red (510) -> blue (765).
GradientPos(c) ==
    IF c[3] > 0 THEN 510 + c[3]
    ELSE IF c[2] = 255 THEN c[1]
    ELSE 255 + (255 - c[2])

SamplesPerDb == 2
ColorSignals == {(k * CentiDb) \div SamplesPerDb : k \in (-120 * SamplesPerDb)..0}

ColorInit ==
    /\ signal_a \in ColorSignals
    /\ signal_b \in ColorSignals
    /\ color_a = <<>>
    /\ color_b = <<>>
    /\ cpc = "input"
    \* the components this specification does not run
    /\ networks = <<>> /\ target_prefixes = <<>> /\ strong_interferers = <<>> /\ overlap_interference = <<>> /\ apc = "off"
    /\ scan_points = <<>> /\ area_prefixes = <<>> /\ problem_areas = <<>> /\ ppc = "off"
    /\ measurements = <<>> /\ source_location = <<>> /\ tpc = "off"
    /\ width = 0 /\ height = 0 /\ ap_locations = <<>> /\ signal_grid = <<>> /\ row = 0 /\ gpc = "off"
    /\ bssid_a = <<>> /\ bssid_b = <<>> /\ device_id_a = <<>> /\ device_id_b = <<>> /\ device_groups = <<>> /\ dpc = "off"
    /\ survey_points = <<>> /\ target_network_name = <<>> /\ report = <<>> /\ interfering_sources = <<>> /\ identified = <<>> /\ pixmap = "none" /\ svpc = "off"
    /\ floor_scan_points = <<>> /\ before_rescan = <<>> /\ rescanned = <<>> /\ next_id = 0 /\ rescans = 0 /\ rpc = "off"
    /\ status_callback = FALSE /\ ticks = <<>>
    /\ est_measurements = <<>> /\ estimate = <<>> /\ epc = "idle"
    /\ configured_prefixes = <<>> /\ detections = <<>> /\ detected = <<>> /\ adpc = "idle"
    /\ floors = <<>> /\ current_floor = 0 /\ heatmap_enabled = FALSE /\ current_heatmap_network = <<>> /\ heatmap_pixmap = <<>> /\ overlay = <<>> /\ generator_size = <<>> /\ generations = <<>> /\ events = 0
    /\ run = 0 /\ first_run = <<>>

\* _draw_signal_grid colours each cell with _signal_to_color_gradient
MapColors ==
    /\ cpc = "input"
    /\ color_a' = signal_to_color_gradient(signal_a)
    /\ color_b' = signal_to_color_gradient(signal_b)
    /\ cpc' = "mapped"
    /\ UNCHANGED <<signal_a, signal_b, netVars, areaVars, triVars, gridVars, devVars, surveyVars, rescanVars, progVars, estVars, autoVars, viewVars, repeatVars>>

SpecColor ==
    /\ ColorInit
    /\ [][MapColors]_vars

\* C1: for signals a > b in [-120, 0] dBm the colour returned for a is never
\* further along the weak-signal gradient (green -> yellow -> orange -> red
\* -> blue) than the colour returned for b.
C1_Monotone ==
    (cpc = "mapped" /\ signal_a > signal_b)
        => GradientPos(color_a) <= GradientPos(color_b)

(***************************************************************************)
(* Strings: str.startswith, str.replace, str.split, str.upper, str.join    *)
(***************************************************************************)
StartsWith(s, prefix) ==
    Len(prefix) <= Len(s) /\ SubSeq(s, 1, Len(prefix)) = prefix

ReplaceChar(s, old, new) == [i \in DOMAIN s |-> IF s[i] = old THEN new ELSE s[i]]

RECURSIVE SplitFrom(_, _, _)
\* the pieces of s between separators, `cur` being the piece under way
SplitFrom(s, sep, cur) ==
    IF s = <<>> THEN <<cur>>
    ELSE IF Head(s) = sep THEN <<cur>> \o SplitFrom(Tail(s), sep, <<>>)
    ELSE SplitFrom(Tail(s), sep, Append(cur, Head(s)))

Split(s, sep) == SplitFrom(s, sep, <<>>)

RECURSIVE Join(_, _)
Join(pieces, sep) ==
    IF pieces = <<>> THEN <<>>
    ELSE IF Len(pieces) = 1 THEN pieces[1]
    ELSE pieces[1] \o <<sep>> \o Join(Tail(pieces), sep)

UpperChar(c) ==
    CASE c = "a" -> "A" [] c = "b" -> "B" [] c = "c" -> "C"
      [] c = "d" -> "D" [] c = "e" -> "E" [] c = "f" -> "F"
      [] OTHER -> c

Upper(s) == [i \in DOMAIN s |-> UpperChar(s[i])]

(***************************************************************************)
(* Device grouper: InterferenceAnalyzer._get_device_id,                    *)
(* _group_networks_by_device                                               *)
(***************************************************************************)
HIDDEN == <<"{", "H", "i", "d", "d", "e", "n", "}">>

\* mutant: the identifier keeps the letter case of the BSSID
get_device_id_KeepCase(bssid) ==
    IF bssid = <<>> THEN <<>>
    ELSE LET octets == Split(ReplaceChar(bssid, "-", ":"), ":")
         IN  IF Len(octets) # 6 THEN <<>>
             ELSE Join(SubSeq(octets, 2, 5), ":")

\* "" for an empty or malformed BSSID, else octets 1..4 joined by ':' in upper case
get_device_id(bssid) ==
    IF bssid = <<>> THEN <<>>
    ELSE LET octets == Split(ReplaceChar(bssid, "-", ":"), ":")
         IN  IF Len(octets) # 6 THEN <<>>
             ELSE Upper(Join(SubSeq(octets, 2, 5), ":"))

RECURSIVE GroupInto_KeepEmpty(_, _)
\* mutant: detections without a device id are grouped under the empty id
GroupInto_KeepEmpty(groups, nets) ==
    IF nets = <<>> THEN groups
    ELSE LET network == Head(nets)
             device_id == get_device_id(network.bssid)
             at == {i \in DOMAIN groups : groups[i].device_id = device_id}
         IN  IF at = {}
             THEN GroupInto_KeepEmpty(
                      Append(groups, [device_id |-> device_id, nets |-> <<network>>]),
                      Tail(nets))
             ELSE LET i == CHOOSE j \in at : TRUE
                  IN  GroupInto_KeepEmpty([groups EXCEPT ![i].nets = Append(@, network)],
                                          Tail(nets))

RECURSIVE GroupInto(_, _)
\* the dict device_id -> [APData], as a sequence in insertion order
GroupInto(groups, nets) ==
    IF nets = <<>> THEN groups
    ELSE LET network == Head(nets)
             device_id == get_device_id(network.bssid)
             at == {i \in DOMAIN groups : groups[i].device_id = device_id}
         IN  IF device_id = <<>> THEN GroupInto(groups, Tail(nets))
             ELSE IF at = {}
             THEN GroupInto(Append(groups, [device_id |-> device_id, nets |-> <<network>>]),
                            Tail(nets))
             ELSE LET i == CHOOSE j \in at : TRUE
                  IN  GroupInto([groups EXCEPT ![i].nets = Append(@, network)], Tail(nets))

group_networks_by_device(nets) == GroupInto(<<>>, nets)

IsTarget(network, prefixes) ==
    \E k \in DOMAIN prefixes : StartsWith(network.ssid, prefixes[k])

\* the device ids of the groups holding a target-prefixed SSID
TargetDeviceIds(groups, prefixes) ==
    {groups[i].device_id : i \in {j \in DOMAIN groups :
        \E k \in DOMAIN groups[j].nets : IsTarget(groups[j].nets[k], prefixes)}}

RECURSIVE Flatten(_)
Flatten(ss) == IF ss = <<>> THEN <<>> ELSE Head(ss) \o Flatten(Tail(ss))

(***************************************************************************)
(* list.sort(key=..., reverse=True): stable, descending by Key             *)
(***************************************************************************)
RECURSIVE InsertDesc(_, _, _)
\* insert e after every element whose key is >= e's key (k = index of the key)
InsertDesc(sorted, e, k) ==
    IF sorted = <<>> THEN <<e>>
    ELSE IF Head(sorted)[k] >= e[k] THEN <<Head(sorted)>> \o InsertDesc(Tail(sorted), e, k)
    ELSE <<e>> \o sorted

RECURSIVE SortDescFrom(_, _, _)
SortDescFrom(sorted, rest, k) ==
    IF rest = <<>> THEN sorted
    ELSE SortDescFrom(InsertDesc(sorted, Head(rest), k), Tail(rest), k)

SortDesc(s, k) == SortDescFrom(<<>>, s, k)

IsSortedDesc(s, k) == \A i \in 1..(Len(s) - 1) : s[i][k] >= s[i + 1][k]

(***************************************************************************)
(* InterferenceAnalyzer._find_strong_interferers                           *)
(***************************************************************************)
interference_threshold == -70
overlap_threshold == -70

RECURSIVE FirstSeen(_, _)
\* the distinct values of s in order of first appearance (dict key order)
FirstSeen(s, seen) ==
    IF s = <<>> THEN <<>>
    ELSE IF Head(s) \in seen THEN FirstSeen(Tail(s), seen)
    ELSE <<Head(s)>> \o FirstSeen(Tail(s), seen \cup {Head(s)})

\* the networks the loop over non-target devices appends, in loop order
StrongCandidates(nets, prefixes) ==
    LET groups == group_networks_by_device(nets)
        targets == TargetDeviceIds(groups, prefixes)
        Strong(n) == n.ssid # HIDDEN /\ n.signal_strength > interference_threshold
        perDevice == [i \in DOMAIN groups |->
                        IF groups[i].device_id \in targets THEN <<>>
                        ELSE SelectSeq(groups[i].nets, Strong)]
    IN  Flatten(perDevice)

\* mutant: the first signal seen for an SSID is kept, not the strongest
ChannelInterferers_First(cands, channel) ==
    LET OnChannel(n) == n.channel = channel
        here == SelectSeq(cands, OnChannel)
        ssids == FirstSeen([i \in DOMAIN here |-> here[i].ssid], {})
        first == [i \in DOMAIN ssids |->
                    <<ssids[i],
                      here[CHOOSE j \in DOMAIN here :
                            /\ here[j].ssid = ssids[i]
                            /\ \A m \in 1..(j - 1) : here[m].ssid # ssids[i]].signal_strength>>]
    IN  SortDesc(first, 2)

\* strongest signal per SSID on one channel, sorted by signal, descending
ChannelInterferers(cands, channel) ==
    LET OnChannel(n) == n.channel = channel
        here == SelectSeq(cands, OnChannel)
        ssids == FirstSeen([i \in DOMAIN here |-> here[i].ssid], {})
        strongest == [i \in DOMAIN ssids |->
                        <<ssids[i],
                          SetMax({here[j].signal_strength :
                                    j \in {m \in DOMAIN here : here[m].ssid = ssids[i]}})>>]
    IN  SortDesc(strongest, 2)

find_strong_interferers(nets, prefixes) ==
    LET cands == StrongCandidates(nets, prefixes)
    IN  [channel \in {cands[i].channel : i \in DOMAIN cands} |->
            ChannelInterferers(cands, channel)]

(***************************************************************************)
(* InterferenceAnalyzer._channels_overlap, _analyze_overlap_interference   *)
(***************************************************************************)
channels_overlap_AnyBand(ch1, ch2) == Abs(ch1 - ch2) < 5

channels_overlap(ch1, ch2) ==
    IF ch1 > 14 \/ ch2 > 14 THEN FALSE
    ELSE Abs(ch1 - ch2) < 5

\* strong_24ghz_by_device: the devices that have a strong, non-hidden
\* detection on a channel <= 14, each with those detections
Strong24ByDevice(nets) ==
    LET groups == group_networks_by_device(nets)
        Strong24(n) == /\ n.channel <= 14
                       /\ n.signal_strength > overlap_threshold
                       /\ n.ssid # HIDDEN
        kept == [i \in DOMAIN groups |->
                    [device_id |-> groups[i].device_id,
                     nets |-> SelectSeq(groups[i].nets, Strong24)]]
        NonEmpty(g) == g.nets # <<>>
    IN  SelectSeq(kept, NonEmpty)

\* mutant: a device is also paired with itself
DevicePairs_WithSelf(devs) == {p \in (DOMAIN devs) \X (DOMAIN devs) : p[1] <= p[2]}

\* the device pairs the nested loops visit (each pair once)
DevicePairs(devs) == {p \in (DOMAIN devs) \X (DOMAIN devs) : p[1] < p[2]}

DeviceChannels(dev) == {dev.nets[j].channel : j \in DOMAIN dev.nets}

\* mutant: only device2's networks are recorded, under device1's channel
PairEntries_OneWay(dev1, dev2, channel) ==
    IF channel \in {dev1.nets[j].channel : j \in DOMAIN dev1.nets}
    THEN {<<n.channel, n.ssid, n.signal_strength>> :
            n \in {m \in Range(dev2.nets) :
                    /\ channel # m.channel
                    /\ channels_overlap(channel, m.channel)
                    /\ m.signal_strength > overlap_threshold}}
    ELSE {}

\* what one pair of devices appends under `channel`
PairEntries(dev1, dev2, channel) ==
    LET \* channel is device1's channel1: device2's networks on an overlapping channel2
        fromSecond ==
            IF channel \in DeviceChannels(dev1)
            THEN {<<n.channel, n.ssid, n.signal_strength>> :
                    n \in {m \in Range(dev2.nets) :
                            /\ channel # m.channel
                            /\ channels_overlap(channel, m.channel)
                            /\ m.signal_strength > overlap_threshold}}
            ELSE {}
        \* channel is device2's channel2: device1's networks on an overlapping channel1
        fromFirst ==
            IF channel \in DeviceChannels(dev2)
            THEN {<<n.channel, n.ssid, n.signal_strength>> :
                    n \in {m \in Range(dev1.nets) :
                            /\ m.channel # channel
                            /\ channels_overlap(m.channel, channel)
                            /\ m.signal_strength > overlap_threshold}}
            ELSE {}
    IN  fromSecond \cup fromFirst

\* the entries appended under `channel` by the nested loops, duplicates removed
OverlapEntries(devs, channel) ==
    UNION {PairEntries(devs[p[1]], devs[p[2]], channel) : p \in DevicePairs(devs)}

RECURSIVE PermSeqs(_)
PermSeqs(S) ==
    IF S = {} THEN {<<>>}
    ELSE UNION {{<<e>> \o p : p \in PermSeqs(S \ {e})} : e \in S}

\* list(set(entries)) then sort by rssi, descending: the order among entries
\* of equal rssi is the set's iteration order, which the program does not fix
SortedOrders(S) == {s \in PermSeqs(S) : IsSortedDesc(s, 3)}

RECURSIVE OrderChoices(_, _)
OrderChoices(keys, entries) ==
    IF keys = {} THEN {<<>>}
    ELSE LET k == CHOOSE c \in keys : TRUE
         IN  {(k :> s) @@ f : s \in SortedOrders(entries[k]),
                              f \in OrderChoices(keys \ {k}, entries)}

\* the set of tables _analyze_overlap_interference can return
analyze_overlap_interference(nets) ==
    LET devs == Strong24ByDevice(nets)
        channels == UNION {DeviceChannels(devs[i]) : i \in DOMAIN devs}
        entries == [c \in channels |-> OverlapEntries(devs, c)]
        keys == {c \in channels : entries[c] # {}}
    IN  OrderChoices(keys, entries)

(***************************************************************************)
(* Inputs of the analyzer                                                  *)
(***************************************************************************)
\* two BSSIDs of one device (they differ in the last octet, in case and in
\* the delimiter) and one of another device
BssidD1a == <<"0", ":", "a", ":", "b", ":", "c", ":", "d", ":", "1">>
BssidD1b == <<"0", "-", "A", "-", "B", "-", "C", "-", "D", "-", "2">>
BssidD2  == <<"0", ":", "a", ":", "b", ":", "c", ":", "e", ":", "1">>

SsidTarget == <<"L", "1">>
SsidOther  == <<"N", "1">>
SsidOther2 == <<"N", "2">>
TargetPrefix == <<"L">>

APData(ssid, bssid, channel, signal) ==
    [ssid |-> ssid, bssid |-> bssid, channel |-> channel, signal_strength |-> signal]

NetBssids == {BssidD1a, BssidD1b, BssidD2}

\* detections for the strong-interferer lists
StrongPool == {APData(s, b, c, g) : s \in {SsidTarget, SsidOther, SsidOther2, HIDDEN},
                                    b \in NetBssids, c \in {1, 6}, g \in {-70, -60, -50}}

\* detections for the overlap table
OverlapPool == {APData(s, b, c, g) : s \in {SsidOther, SsidOther2, HIDDEN},
                                     b \in NetBssids, c \in {1, 3, 6}, g \in {-70, -60}}

MaxNetworks == 2

NetLists(pool) == UNION {[1..n -> pool] : n \in 0..MaxNetworks}

StrongInit ==
    /\ networks \in NetLists(StrongPool)
    /\ target_prefixes = <<TargetPrefix>>
    /\ strong_interferers = <<>>
    /\ overlap_interference = <<>>
    /\ apc = "input"
    \* the components this specification does not run
    /\ signal_a = 0 /\ signal_b = 0 /\ color_a = <<>> /\ color_b = <<>> /\ cpc = "off"
    /\ scan_points = <<>> /\ area_prefixes = <<>> /\ problem_areas = <<>> /\ ppc = "off"
    /\ measurements = <<>> /\ source_location = <<>> /\ tpc = "off"
    /\ width = 0 /\ height = 0 /\ ap_locations = <<>> /\ signal_grid = <<>> /\ row = 0 /\ gpc = "off"
    /\ bssid_a = <<>> /\ bssid_b = <<>> /\ device_id_a = <<>> /\ device_id_b = <<>> /\ device_groups = <<>> /\ dpc = "off"
    /\ survey_points = <<>> /\ target_network_name = <<>> /\ report = <<>> /\ interfering_sources = <<>> /\ identified = <<>> /\ pixmap = "none" /\ svpc = "off"
    /\ floor_scan_points = <<>> /\ before_rescan = <<>> /\ rescanned = <<>> /\ next_id = 0 /\ rescans = 0 /\ rpc = "off"
    /\ status_callback = FALSE /\ ticks = <<>>
    /\ est_measurements = <<>> /\ estimate = <<>> /\ epc = "idle"
    /\ configured_prefixes = <<>> /\ detections = <<>> /\ detected = <<>> /\ adpc = "idle"
    /\ floors = <<>> /\ current_floor = 0 /\ heatmap_enabled = FALSE /\ current_heatmap_network = <<>> /\ heatmap_pixmap = <<>> /\ overlay = <<>> /\ generator_size = <<>> /\ generations = <<>> /\ events = 0
    /\ run = 0 /\ first_run = <<>>

OverlapInit ==
    /\ networks \in NetLists(OverlapPool)
    /\ target_prefixes = <<>>
    /\ strong_interferers = <<>>
    /\ overlap_interference = <<>>
    /\ apc = "input"
    \* the components this specification does not run
    /\ signal_a = 0 /\ signal_b = 0 /\ color_a = <<>> /\ color_b = <<>> /\ cpc = "off"
    /\ scan_points = <<>> /\ area_prefixes = <<>> /\ problem_areas = <<>> /\ ppc = "off"
    /\ measurements = <<>> /\ source_location = <<>> /\ tpc = "off"
    /\ width = 0 /\ height = 0 /\ ap_locations = <<>> /\ signal_grid = <<>> /\ row = 0 /\ gpc = "off"
    /\ bssid_a = <<>> /\ bssid_b = <<>> /\ device_id_a = <<>> /\ device_id_b = <<>> /\ device_groups = <<>> /\ dpc = "off"
    /\ survey_points = <<>> /\ target_network_name = <<>> /\ report = <<>> /\ interfering_sources = <<>> /\ identified = <<>> /\ pixmap = "none" /\ svpc = "off"
    /\ floor_scan_points = <<>> /\ before_rescan = <<>> /\ rescanned = <<>> /\ next_id = 0 /\ rescans = 0 /\ rpc = "off"
    /\ status_callback = FALSE /\ ticks = <<>>
    /\ est_measurements = <<>> /\ estimate = <<>> /\ epc = "idle"
    /\ configured_prefixes = <<>> /\ detections = <<>> /\ detected = <<>> /\ adpc = "idle"
    /\ floors = <<>> /\ current_floor = 0 /\ heatmap_enabled = FALSE /\ current_heatmap_network = <<>> /\ heatmap_pixmap = <<>> /\ overlay = <<>> /\ generator_size = <<>> /\ generations = <<>> /\ events = 0
    /\ run = 0 /\ first_run = <<>>

\* analyze_floor: report.strong_interferers = _find_strong_interferers(...)
FindStrongInterferers ==
    /\ apc = "input"
    /\ strong_interferers' = find_strong_interferers(networks, target_prefixes)
    /\ apc' = "done"
    /\ UNCHANGED <<networks, target_prefixes, overlap_interference,
                   colorVars, areaVars, triVars, gridVars, devVars, surveyVars, rescanVars, progVars, estVars, autoVars, viewVars, repeatVars>>

\* analyze_floor: report.overlap_interference = _analyze_overlap_interference(...)
AnalyzeOverlapInterference ==
    /\ apc = "input"
    /\ overlap_interference' \in analyze_overlap_interference(networks)
    /\ apc' = "done"
    /\ UNCHANGED <<networks, target_prefixes, strong_interferers,
                   colorVars, areaVars, triVars, gridVars, devVars, surveyVars, rescanVars, progVars, estVars, autoVars, viewVars, repeatVars>>

SpecStrong ==
    /\ StrongInit
    /\ [][FindStrongInterferers]_vars

SpecOverlap ==
    /\ OverlapInit
    /\ [][AnalyzeOverlapInterference]_vars

(***************************************************************************)
(* Claims about the overlap table and the strong-interferer lists          *)
(***************************************************************************)
DeviceOf(n) == get_device_id(n.bssid)

\* a detection the overlap analysis takes into account
OverlapStrong(n) ==
    /\ n.ssid # HIDDEN
    /\ n.signal_strength > -70
    /\ n.channel <= 14

HasEntry(table, key, entry) ==
    key \in DOMAIN table /\ entry \in Range(table[key])

EntryOf(n) == <<n.channel, n.ssid, n.signal_strength>>

DistinctDevices(m1, m2) ==
    DeviceOf(m1) # <<>> /\ DeviceOf(m2) # <<>> /\ DeviceOf(m1) # DeviceOf(m2)

\* pairs of detections of two different devices on channels c1, c2 with |c1 - c2| < 5
OverlapPair(m1, m2) ==
    /\ OverlapStrong(m1) /\ OverlapStrong(m2)
    /\ DistinctDevices(m1, m2)
    /\ Abs(m1.channel - m2.channel) < 5

\* C3 as stated: every such pair, co-channel pairs included, is recorded in
\* both directions.
C3_OverlapCompleteCoChannel ==
    apc = "done" =>
        \A i, j \in DOMAIN networks :
            OverlapPair(networks[i], networks[j]) =>
                /\ HasEntry(overlap_interference, networks[i].channel, EntryOf(networks[j]))
                /\ HasEntry(overlap_interference, networks[j].channel, EntryOf(networks[i]))

\* C3 (amended): every pair of non-hidden detections of two different devices,
\* both above -70 dBm, on two different channels c1, c2 <= 14 with
\* |c1 - c2| < 5 is recorded in both directions: (c2, ssid2, signal2) under
\* c1 and (c1, ssid1, signal1) under c2.
C3_OverlapComplete ==
    apc = "done" =>
        \A i, j \in DOMAIN networks :
            (OverlapPair(networks[i], networks[j])
             /\ networks[i].channel # networks[j].channel) =>
                /\ HasEntry(overlap_interference, networks[i].channel, EntryOf(networks[j]))
                /\ HasEntry(overlap_interference, networks[j].channel, EntryOf(networks[i]))

C3_Witness ==
    /\ apc = "done"
    /\ \E i, j \in DOMAIN networks :
        /\ OverlapPair(networks[i], networks[j])
        /\ networks[i].channel = 1 /\ networks[j].channel = 3
        /\ networks[i].ssid # networks[j].ssid
        /\ HasEntry(overlap_interference, 1, EntryOf(networks[j]))
        /\ HasEntry(overlap_interference, 3, EntryOf(networks[i]))

\* C5: every entry of the overlap table comes from two detections of two
\* different devices, and when all strong 2.4 GHz detections belong to one
\* device the table is empty.
C5_NoSelfInterference ==
    apc = "done" =>
        /\ \A c \in DOMAIN overlap_interference :
            \A e \in Range(overlap_interference[c]) :
                \E i, j \in DOMAIN networks :
                    /\ OverlapStrong(networks[i]) /\ OverlapStrong(networks[j])
                    /\ networks[i].channel = c
                    /\ EntryOf(networks[j]) = e
                    /\ DistinctDevices(networks[i], networks[j])
        /\ (Cardinality({DeviceOf(networks[i]) :
                            i \in {k \in DOMAIN networks : OverlapStrong(networks[k])}}) <= 1
                => overlap_interference = <<>>)

\* one device, two BSSIDs and SSIDs on the overlapping channels 1 and 3
C5_Witness ==
    /\ apc = "done"
    /\ \E i, j \in DOMAIN networks :
        /\ OverlapStrong(networks[i]) /\ OverlapStrong(networks[j])
        /\ networks[i].bssid # networks[j].bssid
        /\ networks[i].ssid # networks[j].ssid
        /\ DeviceOf(networks[i]) = DeviceOf(networks[j])
        /\ networks[i].channel = 1 /\ networks[j].channel = 3
    /\ overlap_interference = <<>>

\* the devices that broadcast a target-prefixed SSID anywhere in the input
TargetDevices ==
    {DeviceOf(networks[i]) : i \in {k \in DOMAIN networks :
        IsTarget(networks[k], target_prefixes)}}

\* the detections C6 counts on a channel
Interfering(c) ==
    {n \in Range(networks) :
        /\ n.channel = c
        /\ n.ssid # HIDDEN
        /\ n.signal_strength > -70
        /\ DeviceOf(n) # <<>>
        /\ DeviceOf(n) \notin TargetDevices}

ListOn(table, c) == IF c \in DOMAIN table THEN table[c] ELSE <<>>

\* C6: on every channel the list holds exactly one entry per SSID that has a
\* non-hidden detection above -70 dBm from a non-target device, with the
\* maximum such signal, sorted by signal in descending order.
C6_StrongInterferers ==
    apc = "done" =>
        /\ \A c \in DOMAIN strong_interferers : strong_interferers[c] # <<>>
        /\ \A c \in {n.channel : n \in Range(networks)} \cup DOMAIN strong_interferers :
            LET list == ListOn(strong_interferers, c)
                ssids == {n.ssid : n \in Interfering(c)}
            IN  /\ {list[i][1] : i \in DOMAIN list} = ssids
                /\ Len(list) = Cardinality(ssids)
                /\ \A i \in DOMAIN list :
                    list[i][2] = SetMax({n.signal_strength :
                                            n \in {m \in Interfering(c) : m.ssid = list[i][1]}})
                /\ IsSortedDesc(list, 2)

\* one SSID seen twice on a channel with different signals: one entry, the maximum
C6_Witness ==
    /\ apc = "done"
    /\ \E i, j \in DOMAIN networks :
        /\ networks[i] \in Interfering(1) /\ networks[j] \in Interfering(1)
        /\ networks[i].ssid = networks[j].ssid
        /\ networks[i].signal_strength < networks[j].signal_strength
        /\ strong_interferers[1] = <<<<networks[j].ssid, networks[j].signal_strength>>>>

(***************************************************************************)
(* InterferenceAnalyzer._find_problem_areas                                *)
(***************************************************************************)
\* an optional value: None, or Some(v)
None == <<>>
Some(v) == <<v>>

\* max(seq, key=lambda x: x[k]): the first element with the greatest key
FirstMax(s, k) ==
    s[CHOOSE i \in DOMAIN s :
        /\ \A j \in DOMAIN s : s[j][k] <= s[i][k]
        /\ \A j \in 1..(i - 1) : s[j][k] < s[i][k]]

\* strongest target-prefixed signal at a scan point, None without one
TargetSignal(ap_list, prefixes) ==
    LET sigs == {ap_list[i].signal_strength :
                    i \in {j \in DOMAIN ap_list : IsTarget(ap_list[j], prefixes)}}
    IN  IF sigs = {} THEN None ELSE Some(SetMax(sigs))

\* one (ssid, channel, signal) per non-target device with a strong, non-hidden
\* detection at the point, in device order
PointInterferers(ap_list, prefixes) ==
    LET groups == group_networks_by_device(ap_list)
        targets == TargetDeviceIds(groups, prefixes)
        Strong(n) == n.signal_strength > interference_threshold /\ n.ssid # HIDDEN
        perDevice == [i \in DOMAIN groups |->
            LET device_networks == SelectSeq(groups[i].nets, Strong)
                device_interferers ==
                    [j \in DOMAIN device_networks |->
                        <<device_networks[j].ssid, device_networks[j].channel,
                          device_networks[j].signal_strength>>]
            IN  IF groups[i].device_id \in targets \/ device_interferers = <<>>
                THEN <<>>
                ELSE <<FirstMax(device_interferers, 3)>>]
    IN  Flatten(perDevice)

\* Python truth value of `target_signal`: None and 0 are false
Truthy(v) == v # None /\ v[1] # 0

\* the entry appended for one scan point, or <<>>
PointProblemArea(point, prefixes) ==
    LET target_signal == TargetSignal(point.ap_list, prefixes)
        found == PointInterferers(point.ap_list, prefixes)
    IN  IF Truthy(target_signal) /\ target_signal[1] > -60 /\ Len(found) >= 2
        THEN <<[x |-> point.map_x, y |-> point.map_y,
                target_rssi |-> target_signal[1],
                interferer_count |-> Len(found),
                interferers |-> SubSeq(SortDesc(found, 3), 1, Min2(5, Len(found)))]>>
        ELSE <<>>

find_problem_areas(points, prefixes) ==
    Flatten([i \in DOMAIN points |-> PointProblemArea(points[i], prefixes)])

BssidD3 == <<"0", ":", "a", ":", "b", ":", "c", ":", "f", ":", "1">>

AreaPool == {APData(s, b, 1, g) : s \in {SsidTarget, SsidOther, HIDDEN},
                                  b \in {BssidD1a, BssidD2, BssidD3},
                                  g \in {0, -50, -60, -70}}

MaxPoints == 1
MaxAps == 3

\* the i-th scan point of the floor is taken at (PointX(i), PointY(i))
PointX(i) == 100 * i
PointY(i) == 50

ApLists == UNION {[1..n -> AreaPool] : n \in 0..MaxAps}

AreaInit ==
    /\ \E n \in 1..MaxPoints :
        scan_points \in [1..n -> {[ap_list |-> l] : l \in ApLists}]
    /\ area_prefixes = <<TargetPrefix>>
    /\ problem_areas = <<>>
    /\ ppc = "input"
    \* the components this specification does not run
    /\ signal_a = 0 /\ signal_b = 0 /\ color_a = <<>> /\ color_b = <<>> /\ cpc = "off"
    /\ networks = <<>> /\ target_prefixes = <<>> /\ strong_interferers = <<>> /\ overlap_interference = <<>> /\ apc = "off"
    /\ measurements = <<>> /\ source_location = <<>> /\ tpc = "off"
    /\ width = 0 /\ height = 0 /\ ap_locations = <<>> /\ signal_grid = <<>> /\ row = 0 /\ gpc = "off"
    /\ bssid_a = <<>> /\ bssid_b = <<>> /\ device_id_a = <<>> /\ device_id_b = <<>> /\ device_groups = <<>> /\ dpc = "off"
    /\ survey_points = <<>> /\ target_network_name = <<>> /\ report = <<>> /\ interfering_sources = <<>> /\ identified = <<>> /\ pixmap = "none" /\ svpc = "off"
    /\ floor_scan_points = <<>> /\ before_rescan = <<>> /\ rescanned = <<>> /\ next_id = 0 /\ rescans = 0 /\ rpc = "off"
    /\ status_callback = FALSE /\ ticks = <<>>
    /\ est_measurements = <<>> /\ estimate = <<>> /\ epc = "idle"
    /\ configured_prefixes = <<>> /\ detections = <<>> /\ detected = <<>> /\ adpc = "idle"
    /\ floors = <<>> /\ current_floor = 0 /\ heatmap_enabled = FALSE /\ current_heatmap_network = <<>> /\ heatmap_pixmap = <<>> /\ overlay = <<>> /\ generator_size = <<>> /\ generations = <<>> /\ events = 0
    /\ run = 0 /\ first_run = <<>>

ScanPointAt(i) ==
    [map_x |-> PointX(i), map_y |-> PointY(i), ap_list |-> scan_points[i].ap_list]

\* analyze_floor: report.problem_areas = _find_problem_areas(...)
FindProblemAreas ==
    /\ ppc = "input"
    /\ problem_areas' =
        find_problem_areas([i \in DOMAIN scan_points |-> ScanPointAt(i)], area_prefixes)
    /\ ppc' = "done"
    /\ UNCHANGED <<scan_points, area_prefixes, colorVars, netVars, triVars, gridVars, devVars, surveyVars, rescanVars, progVars, estVars, autoVars, viewVars, repeatVars>>

SpecAreas ==
    /\ AreaInit
    /\ [][FindProblemAreas]_vars

\* the non-target devices with a non-hidden detection above -70 dBm at a point
PointTargetDevices(ap_list) ==
    {DeviceOf(ap_list[i]) : i \in {k \in DOMAIN ap_list : IsTarget(ap_list[k], area_prefixes)}}

PointInterferingDevices(ap_list) ==
    {DeviceOf(ap_list[i]) : i \in {k \in DOMAIN ap_list :
        /\ ap_list[k].ssid # HIDDEN
        /\ ap_list[k].signal_strength > -70
        /\ DeviceOf(ap_list[k]) # <<>>
        /\ DeviceOf(ap_list[k]) \notin PointTargetDevices(ap_list)}}

PointQualifies(ap_list) ==
    /\ \E i \in DOMAIN ap_list :
        IsTarget(ap_list[i], area_prefixes) /\ ap_list[i].signal_strength > -60
    /\ Cardinality(PointInterferingDevices(ap_list)) >= 2

AreasAt(i) == {k \in DOMAIN problem_areas :
                problem_areas[k].x = PointX(i) /\ problem_areas[k].y = PointY(i)}

\* C4: a survey point has an entry if and only if its strongest target signal
\* exceeds -60 dBm (0 dBm included) and at least 2 distinct non-target devices
\* have a non-hidden detection above -70 dBm there; an entry keeps at most the
\* 5 strongest interferers in descending signal order.
C4_ProblemAreaCriterion ==
    ppc = "done" =>
        /\ \A i \in DOMAIN scan_points :
            (AreasAt(i) # {}) <=> PointQualifies(scan_points[i].ap_list)
        /\ \A k \in DOMAIN problem_areas :
            /\ Len(problem_areas[k].interferers) <= 5
            /\ IsSortedDesc(problem_areas[k].interferers, 3)

(***************************************************************************)
(* External-source triangulator: HeatmapGenerator                          *)
(* _estimate_interference_source_location and its helpers.                 *)
(* A measurement is <<x, y, rssi, ssid>>.                                  *)
(***************************************************************************)
RECURSIVE Pow10(_)
Pow10(q) == IF q = 0 THEN 1 ELSE 10 * Pow10(q - 1)

\* floor(1000 * 10^(m/20)) for m = 0..19
Root20Table == <<1000, 1122, 1258, 1412, 1584, 1778, 1995, 2238, 2511, 2818, 3162, 3548, 3981, 4466, 5011, 5623, 6309, 7079, 7943, 8912>>

\* pow(10, (rssi + 100) / 20), floored to an integer; -100 <= rssi <= 0
TriWeight(rssi) ==
    LET n == rssi + 100
    IN  (Pow10(n \div 20) * Root20Table[(n % 20) + 1]) \div 1000

\* the largest squared distance d2 with 20 * log10(sqrt(d2) / 50) < k, that is
\* floor(2500 * 10^(k/10)) (one less where that is an integer), for k = 1..12
LossBoundTable ==
    <<3147, 3962, 4988, 6279, 7905, 9952, 12529, 15773, 19858, 24999, 31473, 39622>>

Dist2(x1, y1, x2, y2) == (x1 - x2) * (x1 - x2) + (y1 - y2) * (y1 - y2)

\* rssi > nearby_rssi + 20 * log10(distance / 50) + 10, for 50 <= distance <= 200
TooStrongFor(rssi, nearby_rssi, d2) ==
    LET k == rssi - nearby_rssi - 10
    IN  IF k <= 0 THEN FALSE
        ELSE IF k >= 13 THEN TRUE
        ELSE d2 <= LossBoundTable[k]

fits_propagation_pattern(test, all) ==
    LET nearby == {i \in DOMAIN all :
                    LET d2 == Dist2(test[1], test[2], all[i][1], all[i][2])
                    IN  2500 <= d2 /\ d2 <= 40000}
    IN  IF nearby = {} THEN TRUE
        ELSE ~ \E i \in nearby :
                TooStrongFor(test[3], all[i][3],
                             Dist2(test[1], test[2], all[i][1], all[i][2]))

\* twice np.median of the signals
Median2(ms) ==
    LET sorted == SortDesc(ms, 3)
        n == Len(ms)
    IN  IF n % 2 = 1 THEN 2 * sorted[(n + 1) \div 2][3]
        ELSE sorted[n \div 2][3] + sorted[n \div 2 + 1][3]

filter_nlos_measurements(ms) ==
    IF Len(ms) < 5 THEN ms
    ELSE LET median2 == Median2(ms)
             Keep(m) == \/ 2 * m[3] <= median2 + 30
                        \/ fits_propagation_pattern(m, ms)
             filtered == SelectSeq(ms, Keep)
         IN  IF Len(filtered) >= 3 THEN filtered ELSE ms

\* avg1 - avg2 for the means of two lists given as <<sum, count>>; an empty
\* list has the mean -100.  The result is the fraction <<numerator, denominator>>.
MeanOf(sc) == IF sc[2] = 0 THEN <<-100, 1>> ELSE sc
MeanDiff(sc1, sc2) ==
    LET a == MeanOf(sc1)
        b == MeanOf(sc2)
    IN  <<a[1] * b[2] - b[1] * a[2], a[2] * b[2]>>

SumCount(sel) ==
    <<SeqSum([i \in DOMAIN sel |-> sel[i][3]]), Len(sel)>>

\* None, or Some(<<dx, dy>>)
analyze_signal_gradient(ms) ==
    IF Len(ms) < 4 THEN None
    ELSE LET n == Len(ms)
             sum_x == SeqSum([i \in DOMAIN ms |-> ms[i][1]])
             sum_y == SeqSum([i \in DOMAIN ms |-> ms[i][2]])
             North(m) == n * m[2] < sum_y
             South(m) == n * m[2] > sum_y
             East(m)  == n * m[1] > sum_x
             West(m)  == n * m[1] < sum_x
             ns == MeanDiff(SumCount(SelectSeq(ms, North)), SumCount(SelectSeq(ms, South)))
             ew == MeanDiff(SumCount(SelectSeq(ms, East)), SumCount(SelectSeq(ms, West)))
             dy == IF Abs(ns[1]) > 5 * ns[2]
                   THEN (IF ns[1] > 0 THEN -1 ELSE 1) ELSE 0
             dx == IF Abs(ew[1]) > 5 * ew[2]
                   THEN (IF ew[1] > 0 THEN 1 ELSE -1) ELSE 0
         IN  IF dx # 0 \/ dy # 0 THEN Some(<<dx, dy>>) ELSE None

OffsetDistance(strongest_rssi) ==
    IF strongest_rssi > -40 THEN 80
    ELSE IF strongest_rssi > -50 THEN 150
    ELSE IF strongest_rssi > -60 THEN 250
    ELSE 400

\* the direction taken when the gradient gives none: toward the bounding-box
\* edge nearest to the strongest measurement
NearestEdge(strongest, min_x, max_x, min_y, max_y) ==
    LET to_left == strongest[1] - min_x
        to_right == max_x - strongest[1]
        to_top == strongest[2] - min_y
        to_bottom == max_y - strongest[2]
        min_distance == SetMin({to_left, to_right, to_top, to_bottom})
    IN  IF min_distance = to_left THEN <<-1, 0>>
        ELSE IF min_distance = to_right THEN <<1, 0>>
        ELSE IF min_distance = to_top THEN <<0, -1>>
        ELSE <<0, 1>>

\* <<estimated_x, estimated_y>>; the weighted centroid is floored to a pixel
triangulate_external_source(ms, direction) ==
    LET min_x == SetMin({ms[i][1] : i \in DOMAIN ms})
        max_x == SetMax({ms[i][1] : i \in DOMAIN ms})
        min_y == SetMin({ms[i][2] : i \in DOMAIN ms})
        max_y == SetMax({ms[i][2] : i \in DOMAIN ms})
        top_measurements == SubSeq(SortDesc(ms, 3), 1, 3)
        total_weight == SeqSum([i \in 1..3 |-> TriWeight(top_measurements[i][3])])
        weighted_x == SeqSum([i \in 1..3 |->
                        top_measurements[i][1] * TriWeight(top_measurements[i][3])])
        weighted_y == SeqSum([i \in 1..3 |->
                        top_measurements[i][2] * TriWeight(top_measurements[i][3])])
        centroid_x == weighted_x \div total_weight
        centroid_y == weighted_y \div total_weight
        d == IF direction # None THEN direction[1]
             ELSE NearestEdge(top_measurements[1], min_x, max_x, min_y, max_y)
        offset_distance == OffsetDistance(top_measurements[1][3])
    IN  IF d[1] < 0 THEN <<min_x - offset_distance, centroid_y>>
        ELSE IF d[1] > 0 THEN <<max_x + offset_distance, centroid_y>>
        ELSE IF d[2] < 0 THEN <<centroid_x, min_y - offset_distance>>
        ELSE <<centroid_x, max_y + offset_distance>>

\* the returned dict without tx_power
estimate_interference_source_location(ms) ==
    LET filtered == filter_nlos_measurements(ms)
        valid_measurements == IF Len(filtered) < 3 THEN ms ELSE filtered
        source_direction == analyze_signal_gradient(valid_measurements)
        estimated == triangulate_external_source(valid_measurements, source_direction)
    IN  [x |-> estimated[1], y |-> estimated[2],
         ssid |-> ms[1][4],
         measurement_count |-> Len(ms),
         max_rssi |-> SetMax({ms[i][3] : i \in DOMAIN ms})]

\* The scan points of the survey, in survey order; the device is measured at a
\* point with one of TriSignals or not seen there.
TriPoints == << <<0, 0>>, <<100, 0>>, <<200, 0>>, <<100, 100>>, <<200, 100>>, <<300, 100>> >>
TriSignals == {-65, -39, -10}
NotSeen == 1

RECURSIVE MeasurementsOf(_, _)
MeasurementsOf(seen, i) ==
    IF i > Len(TriPoints) THEN <<>>
    ELSE (IF seen[i] = NotSeen THEN <<>>
          ELSE << <<TriPoints[i][1], TriPoints[i][2], seen[i], SsidOther>> >>)
         \o MeasurementsOf(seen, i + 1)

TriInit ==
    /\ \E seen \in [DOMAIN TriPoints -> TriSignals \cup {NotSeen}] :
        measurements = MeasurementsOf(seen, 1)
    /\ source_location = <<>>
    /\ tpc = "input"
    \* the components this specification does not run
    /\ signal_a = 0 /\ signal_b = 0 /\ color_a = <<>> /\ color_b = <<>> /\ cpc = "off"
    /\ networks = <<>> /\ target_prefixes = <<>> /\ strong_interferers = <<>> /\ overlap_interference = <<>> /\ apc = "off"
    /\ scan_points = <<>> /\ area_prefixes = <<>> /\ problem_areas = <<>> /\ ppc = "off"
    /\ width = 0 /\ height = 0 /\ ap_locations = <<>> /\ signal_grid = <<>> /\ row = 0 /\ gpc = "off"
    /\ bssid_a = <<>> /\ bssid_b = <<>> /\ device_id_a = <<>> /\ device_id_b = <<>> /\ device_groups = <<>> /\ dpc = "off"
    /\ survey_points = <<>> /\ target_network_name = <<>> /\ report = <<>> /\ interfering_sources = <<>> /\ identified = <<>> /\ pixmap = "none" /\ svpc = "off"
    /\ floor_scan_points = <<>> /\ before_rescan = <<>> /\ rescanned = <<>> /\ next_id = 0 /\ rescans = 0 /\ rpc = "off"
    /\ status_callback = FALSE /\ ticks = <<>>
    /\ est_measurements = <<>> /\ estimate = <<>> /\ epc = "idle"
    /\ configured_prefixes = <<>> /\ detections = <<>> /\ detected = <<>> /\ adpc = "idle"
    /\ floors = <<>> /\ current_floor = 0 /\ heatmap_enabled = FALSE /\ current_heatmap_network = <<>> /\ heatmap_pixmap = <<>> /\ overlay = <<>> /\ generator_size = <<>> /\ generations = <<>> /\ events = 0
    /\ run = 0 /\ first_run = <<>>

\* _triangulate_interfering_sources: a device with 3 or more measurements
EstimateSource ==
    /\ tpc = "input"
    /\ Len(measurements) >= 3
    /\ source_location' = estimate_interference_source_location(measurements)
    /\ tpc' = "done"
    /\ UNCHANGED <<measurements, colorVars, netVars, areaVars, gridVars, devVars, surveyVars, rescanVars, progVars, estVars, autoVars, viewVars, repeatVars>>

\* _triangulate_interfering_sources: fewer than 3 measurements, no source
SkipSource ==
    /\ tpc = "input"
    /\ Len(measurements) < 3
    /\ tpc' = "skipped"
    /\ UNCHANGED <<measurements, source_location, colorVars, netVars, areaVars, gridVars, devVars, surveyVars, rescanVars, progVars, estVars, autoVars, viewVars, repeatVars>>

SpecTri ==
    /\ TriInit
    /\ [][EstimateSource \/ SkipSource]_vars

\* C2: the estimate lies strictly outside the bounding box of the coordinates
\* of all the measurements given to the triangulator.
C2_OutsideBounds ==
    tpc = "done" =>
        \/ source_location.x < SetMin({measurements[i][1] : i \in DOMAIN measurements})
        \/ source_location.x > SetMax({measurements[i][1] : i \in DOMAIN measurements})
        \/ source_location.y < SetMin({measurements[i][2] : i \in DOMAIN measurements})
        \/ source_location.y > SetMax({measurements[i][2] : i \in DOMAIN measurements})

(***************************************************************************)
(* Path-loss model and signal-strength grid builder: HeatmapGenerator      *)
(* _calculate_signal_at_point, _create_signal_strength_grid, as called by  *)
(* _create_signal_based_heatmap.  Grid values are hundredths of a dBm; a   *)
(* cell is Some(value) or None (np.nan).                                   *)
(***************************************************************************)
grid_resolution == 4
Sentinel == -999 * CentiDb
MinThreshold == -95 * CentiDb

\* max_signal - distance_feet * path_loss_per_foot at (x, y), where
\* distance_feet = distance_pixels * (164.0 / self.width)
calculate_signal_at_point(w, ap_location, x, y) ==
    LET distance_pixels == ISqrt(Dist2(x, y, ap_location.x, ap_location.y) * CentiDb * CentiDb)
        \* path_loss_per_foot in tenths of a dB: 0.5 or 0.6
        path_loss_per_foot == IF ap_location.band = "2.4 GHz" THEN 5 ELSE 6
        signal_loss == (distance_pixels * 164 * path_loss_per_foot) \div (w * 10)
    IN  ap_location.max_signal * CentiDb - signal_loss

\* mutant: the last source wins, not the strongest
RECURSIVE StrongestSignal_LastWins(_, _, _, _, _)
StrongestSignal_LastWins(w, aps, x, y, strongest_signal) ==
    IF aps = <<>> THEN strongest_signal
    ELSE StrongestSignal_LastWins(w, Tail(aps), x, y,
                                  calculate_signal_at_point(w, Head(aps), x, y))

RECURSIVE StrongestSignal(_, _, _, _, _)
\* the loop over ap_locations, starting from strongest_signal = -999
StrongestSignal(w, aps, x, y, strongest_signal) ==
    IF aps = <<>> THEN strongest_signal
    ELSE LET signal == calculate_signal_at_point(w, Head(aps), x, y)
         IN  StrongestSignal(w, Tail(aps), x, y,
                             IF signal > strongest_signal THEN signal ELSE strongest_signal)

\* mutant: a signal of exactly -95 dBm is stored
StoreCell_Inclusive(strongest_signal) ==
    IF strongest_signal >= MinThreshold THEN Some(strongest_signal) ELSE None

\* only store if the signal is above the minimum threshold, else np.nan
StoreCell(strongest_signal) ==
    IF strongest_signal > MinThreshold THEN Some(strongest_signal) ELSE None

PixelOf(cell) == cell * grid_resolution + grid_resolution \div 2

\* the cells of one row (row and col count from 0)
GridRowCells(w, aps, r, grid_width) ==
    [c \in 1..grid_width |->
        StoreCell(StrongestSignal(w, aps, PixelOf(c - 1), PixelOf(r), Sentinel))]

GridWidth == width \div grid_resolution
GridHeight == height \div grid_resolution

\* sources: estimated emitter locations, <<>> when none was found
GridXs == {2, 6}
GridSignals == {0, -10, -90, -95}
GridBands == {"2.4 GHz", "5 GHz"}
GridSources == {[x |-> x, y |-> 2, max_signal |-> g, band |-> b] :
                    x \in GridXs, g \in GridSignals, b \in GridBands}
\* 10 is no multiple of the cell size; a height of 12 gives three rows
FloorSizes == {-4, 0, 8, 10}
FloorHeights == FloorSizes \cup {12}
MaxSources == 2

GridInit ==
    /\ width \in FloorSizes
    /\ height \in FloorHeights
    /\ ap_locations \in UNION {[1..n -> GridSources] : n \in 0..MaxSources}
    /\ signal_grid = <<>>
    /\ row = 0
    /\ gpc = "input"
    /\ status_callback \in BOOLEAN
    /\ ticks = <<>>
    \* the components this specification does not run
    /\ signal_a = 0 /\ signal_b = 0 /\ color_a = <<>> /\ color_b = <<>> /\ cpc = "off"
    /\ networks = <<>> /\ target_prefixes = <<>> /\ strong_interferers = <<>> /\ overlap_interference = <<>> /\ apc = "off"
    /\ scan_points = <<>> /\ area_prefixes = <<>> /\ problem_areas = <<>> /\ ppc = "off"
    /\ measurements = <<>> /\ source_location = <<>> /\ tpc = "off"
    /\ bssid_a = <<>> /\ bssid_b = <<>> /\ device_id_a = <<>> /\ device_id_b = <<>> /\ device_groups = <<>> /\ dpc = "off"
    /\ survey_points = <<>> /\ target_network_name = <<>> /\ report = <<>> /\ interfering_sources = <<>> /\ identified = <<>> /\ pixmap = "none" /\ svpc = "off"
    /\ floor_scan_points = <<>> /\ before_rescan = <<>> /\ rescanned = <<>> /\ next_id = 0 /\ rescans = 0 /\ rpc = "off"
    /\ est_measurements = <<>> /\ estimate = <<>> /\ epc = "idle"
    /\ configured_prefixes = <<>> /\ detections = <<>> /\ detected = <<>> /\ adpc = "idle"
    /\ floors = <<>> /\ current_floor = 0 /\ heatmap_enabled = FALSE /\ current_heatmap_network = <<>> /\ heatmap_pixmap = <<>> /\ overlay = <<>> /\ generator_size = <<>> /\ generations = <<>> /\ events = 0
    /\ run = 0 /\ first_run = <<>>

\* mutant: pct is advanced before it is reported
RowTick_Advanced(r, grid_height) == (20 * grid_height + 80 * (r + 1)) \div grid_height

\* progress_callback(int(pct)) of row r, where pct = 20 + r * (80 / grid_height)
RowTick(r, grid_height) == (20 * grid_height + 80 * r) \div grid_height

\* _create_signal_based_heatmap: no emitter, the empty (transparent) raster
ReturnEmptyHeatmap ==
    /\ gpc = "input"
    /\ ap_locations = <<>>
    /\ gpc' = "empty"
    /\ UNCHANGED <<width, height, ap_locations, signal_grid, row,
                   colorVars, netVars, areaVars, triVars, devVars, surveyVars, rescanVars, progVars, estVars, autoVars, viewVars, repeatVars>>

\* status_callback(10), then _create_signal_strength_grid up to its row loop:
\* np.full raises ValueError
\* for a negative dimension, 80 / grid_height raises ZeroDivisionError
StartGrid ==
    /\ gpc = "input"
    /\ ap_locations # <<>>
    /\ IF GridHeight < 0 \/ GridWidth < 0
       THEN gpc' = "error" /\ UNCHANGED signal_grid
       ELSE /\ signal_grid' = [r \in 1..GridHeight |-> [c \in 1..GridWidth |-> Some(Sentinel)]]
            /\ gpc' = IF GridHeight = 0 THEN "error" ELSE "rows"
    /\ ticks' = IF status_callback THEN Append(ticks, 10) ELSE ticks
    /\ UNCHANGED <<width, height, ap_locations, row, colorVars, netVars, areaVars, triVars, devVars, surveyVars, rescanVars, status_callback, estVars, autoVars, viewVars, repeatVars>>

\* one iteration of `for row in range(grid_height)`
GridRow ==
    /\ gpc = "rows"
    /\ row < GridHeight
    /\ signal_grid' = [signal_grid EXCEPT
                        ![row + 1] = GridRowCells(width, ap_locations, row, GridWidth)]
    /\ row' = row + 1
    /\ ticks' = IF status_callback THEN Append(ticks, RowTick(row, GridHeight)) ELSE ticks
    /\ UNCHANGED <<width, height, ap_locations, gpc, colorVars, netVars, areaVars, triVars, devVars, surveyVars, rescanVars, status_callback, estVars, autoVars, viewVars, repeatVars>>

\* the grid is returned and drawn, status_callback(100), the raster is returned
FinishGrid ==
    /\ gpc = "rows"
    /\ row = GridHeight
    /\ gpc' = "done"
    /\ ticks' = IF status_callback THEN Append(ticks, 100) ELSE ticks
    /\ UNCHANGED <<width, height, ap_locations, signal_grid, row,
                   colorVars, netVars, areaVars, triVars, devVars, surveyVars, rescanVars, status_callback, estVars, autoVars, viewVars, repeatVars>>

SpecGrid ==
    /\ GridInit
    /\ [][ReturnEmptyHeatmap \/ StartGrid \/ GridRow \/ FinishGrid]_vars

(***************************************************************************)
(* Claims about the path-loss model and the grid                           *)
(***************************************************************************)
\* the cells computed so far, as <<row, col>> counted from 1
ComputedCells ==
    IF gpc \in {"rows", "done"} THEN (1..row) \X (1..GridWidth) ELSE {}

\* the predictions of all sources at the centre of a cell
Predictions(cell) ==
    {calculate_signal_at_point(width, ap_locations[i], PixelOf(cell[2] - 1), PixelOf(cell[1] - 1)) :
        i \in DOMAIN ap_locations}

\* C7: every prediction of the path-loss model that the grid builder uses lies
\* in [-95, -20] dBm.
C7_PathLossClamped ==
    \A cell \in ComputedCells :
        \A v \in Predictions(cell) : MinThreshold <= v /\ v <= -20 * CentiDb

RECURSIVE Reverse(_)
Reverse(s) == IF s = <<>> THEN <<>> ELSE Append(Reverse(Tail(s)), Head(s))

\* C8: every cell that carries data holds the maximum over all sources of the
\* prediction at the cell centre (col*4+2, row*4+2), and the grid is the same
\* for the sources taken in the reverse order.
C8_StrongestSourceWins ==
    gpc = "done" =>
        \A cell \in ComputedCells :
            LET value == signal_grid[cell[1]][cell[2]]
            IN  /\ value # None => value = Some(SetMax(Predictions(cell)))
                /\ value = StoreCell(StrongestSignal(width, Reverse(ap_locations),
                                        PixelOf(cell[2] - 1), PixelOf(cell[1] - 1), Sentinel))

\* a cell won by the first source and a cell won by the second one
C8_Witness ==
    /\ gpc = "done"
    /\ Len(ap_locations) = 2
    /\ \E c1, c2 \in ComputedCells :
        /\ signal_grid[c1[1]][c1[2]] # None
        /\ signal_grid[c2[1]][c2[2]] # None
        /\ signal_grid[c1[1]][c1[2]][1] =
            calculate_signal_at_point(width, ap_locations[1], PixelOf(c1[2] - 1), PixelOf(c1[1] - 1))
        /\ signal_grid[c1[1]][c1[2]][1] >
            calculate_signal_at_point(width, ap_locations[2], PixelOf(c1[2] - 1), PixelOf(c1[1] - 1))
        /\ signal_grid[c2[1]][c2[2]][1] =
            calculate_signal_at_point(width, ap_locations[2], PixelOf(c2[2] - 1), PixelOf(c2[1] - 1))
        /\ signal_grid[c2[1]][c2[2]][1] >
            calculate_signal_at_point(width, ap_locations[1], PixelOf(c2[2] - 1), PixelOf(c2[1] - 1))

\* C9 as stated: a cell is no-data if and only if its strongest prediction is
\* below -95 dBm, a cell at exactly -95 dBm or stronger carries the value, and
\* no cell holds zero or the -999 sentinel.
C9_NoDataBelowThreshold ==
    gpc = "done" =>
        \A cell \in ComputedCells :
            LET value == signal_grid[cell[1]][cell[2]]
                strongest == SetMax(Predictions(cell))
            IN  /\ value = None <=> strongest < MinThreshold
                /\ strongest >= MinThreshold => value = Some(strongest)
                /\ value # Some(0)
                /\ value # Some(Sentinel)

\* C9 (amended): in the returned grid a cell is no-data if and only if its
\* strongest prediction is at or below -95 dBm; a cell whose strongest
\* prediction is above -95 dBm carries that value; no cell holds the -999
\* sentinel, and a cell holds zero only when its strongest prediction is 0 dBm.
C9_NoDataAtOrBelowThreshold ==
    gpc = "done" =>
        \A cell \in ComputedCells :
            LET value == signal_grid[cell[1]][cell[2]]
                strongest == SetMax(Predictions(cell))
            IN  /\ value = None <=> strongest <= MinThreshold
                /\ strongest > MinThreshold => value = Some(strongest)
                /\ value = Some(0) => strongest = 0
                /\ value # Some(Sentinel)

\* a cell at exactly -95 dBm is no-data next to a cell that carries data
C9_Witness ==
    /\ gpc = "done"
    /\ \E c1, c2 \in ComputedCells :
        /\ SetMax(Predictions(c1)) = MinThreshold
        /\ signal_grid[c1[1]][c1[2]] = None
        /\ signal_grid[c2[1]][c2[2]] # None

\* C10: with a floor width or height that is zero or negative and at least
\* one emitter, generation ends in an error; it never returns a raster.
C10_FailFastOnBadDimensions ==
    (ap_locations # <<>> /\ (width <= 0 \/ height <= 0)) => gpc # "done"

(***************************************************************************)
(* The device grouper on pairs of BSSIDs                                   *)
(***************************************************************************)
\* the first five octets of three radios: DevOctetsB differs from DevOctetsA
\* in octet 4, DevOctetsC differs from DevOctetsA in octet 0 only
DevOctetsA == <<"a0", "b1", "c2", "d3", "e4">>
DevOctetsB == <<"a0", "b1", "c2", "d3", "e5">>
DevOctetsC == <<"a2", "b1", "c2", "d3", "e4">>
DevPrefixes == {DevOctetsA, DevOctetsB, DevOctetsC}
LastOctets == {"f5", "f6"}

\* the characters of an octet written in lower or in upper case
OctetChars(octet, upper) ==
    IF octet = "a0" THEN (IF upper THEN <<"A", "0">> ELSE <<"a", "0">>)
    ELSE IF octet = "a2" THEN (IF upper THEN <<"A", "2">> ELSE <<"a", "2">>)
    ELSE IF octet = "b1" THEN (IF upper THEN <<"B", "1">> ELSE <<"b", "1">>)
    ELSE IF octet = "c2" THEN (IF upper THEN <<"C", "2">> ELSE <<"c", "2">>)
    ELSE IF octet = "d3" THEN (IF upper THEN <<"D", "3">> ELSE <<"d", "3">>)
    ELSE IF octet = "e4" THEN (IF upper THEN <<"E", "4">> ELSE <<"e", "4">>)
    ELSE IF octet = "e5" THEN (IF upper THEN <<"E", "5">> ELSE <<"e", "5">>)
    ELSE IF octet = "f5" THEN (IF upper THEN <<"F", "5">> ELSE <<"f", "5">>)
    ELSE (IF upper THEN <<"F", "6">> ELSE <<"f", "6">>)

RECURSIVE WriteOctets(_, _, _, _)
\* the octets written one after the other, octet i+1 preceded by delims[i]
WriteOctets(octets, delims, upper, i) ==
    IF i > Len(octets) THEN <<>>
    ELSE (IF i = 1 THEN <<>> ELSE <<delims[i - 1]>>)
         \o OctetChars(octets[i], upper) \o WriteOctets(octets, delims, upper, i + 1)

\* a well-formed BSSID: six octets, each delimiter ':' or '-'
WriteBssid(prefix, last, delims, upper) ==
    WriteOctets(Append(prefix, last), delims, upper, 1)

DelimiterStyles == {[i \in 1..5 |-> ":"], [i \in 1..5 |-> "-"],
                    [i \in 1..5 |-> IF i % 2 = 1 THEN ":" ELSE "-"]}

WellFormedBssids ==
    {WriteBssid(p, l, d, u) : p \in DevPrefixes, l \in LastOctets,
                              d \in DelimiterStyles, u \in BOOLEAN}

\* BSSIDs that are empty or do not split into six octets
MalformedBssids ==
    { <<>>,
      WriteOctets(DevOctetsA, [i \in 1..4 |-> ":"], FALSE, 1),
      WriteOctets(DevOctetsA \o <<"f5", "f6">>, [i \in 1..6 |-> ":"], FALSE, 1),
      WriteOctets(Append(DevOctetsA, "f5"), [i \in 1..5 |-> ":"], FALSE, 1) \o <<":">>,
      <<"a", "0", "b", "1", "c", "2", "d", "3", "e", "4", "f", "5">> }

DevInit ==
    /\ bssid_a \in WellFormedBssids \cup MalformedBssids
    /\ bssid_b \in WellFormedBssids \cup MalformedBssids
    /\ device_id_a = <<>>
    /\ device_id_b = <<>>
    /\ device_groups = <<>>
    /\ dpc = "input"
    \* the components this specification does not run
    /\ signal_a = 0 /\ signal_b = 0 /\ color_a = <<>> /\ color_b = <<>> /\ cpc = "off"
    /\ networks = <<>> /\ target_prefixes = <<>> /\ strong_interferers = <<>> /\ overlap_interference = <<>> /\ apc = "off"
    /\ scan_points = <<>> /\ area_prefixes = <<>> /\ problem_areas = <<>> /\ ppc = "off"
    /\ measurements = <<>> /\ source_location = <<>> /\ tpc = "off"
    /\ width = 0 /\ height = 0 /\ ap_locations = <<>> /\ signal_grid = <<>> /\ row = 0 /\ gpc = "off"
    /\ survey_points = <<>> /\ target_network_name = <<>> /\ report = <<>> /\ interfering_sources = <<>> /\ identified = <<>> /\ pixmap = "none" /\ svpc = "off"
    /\ floor_scan_points = <<>> /\ before_rescan = <<>> /\ rescanned = <<>> /\ next_id = 0 /\ rescans = 0 /\ rpc = "off"
    /\ status_callback = FALSE /\ ticks = <<>>
    /\ est_measurements = <<>> /\ estimate = <<>> /\ epc = "idle"
    /\ configured_prefixes = <<>> /\ detections = <<>> /\ detected = <<>> /\ adpc = "idle"
    /\ floors = <<>> /\ current_floor = 0 /\ heatmap_enabled = FALSE /\ current_heatmap_network = <<>> /\ heatmap_pixmap = <<>> /\ overlay = <<>> /\ generator_size = <<>> /\ generations = <<>> /\ events = 0
    /\ run = 0 /\ first_run = <<>>

\* the two detections handed to the grouper
DetectionA == APData(SsidOther, bssid_a, 1, -60)
DetectionB == APData(SsidOther2, bssid_b, 6, -60)

\* _group_networks_by_device over the two detections
GroupNetworksByDevice ==
    /\ dpc = "input"
    /\ device_id_a' = get_device_id(bssid_a)
    /\ device_id_b' = get_device_id(bssid_b)
    /\ device_groups' = group_networks_by_device(<<DetectionA, DetectionB>>)
    /\ dpc' = "done"
    /\ UNCHANGED <<bssid_a, bssid_b, colorVars, netVars, areaVars, triVars, gridVars, surveyVars, rescanVars, progVars, estVars, autoVars, viewVars, repeatVars>>

SpecDevice ==
    /\ DevInit
    /\ [][GroupNetworksByDevice]_vars

\* the two BSSIDs are written from the same first five octets
SameRadio ==
    \E p \in DevPrefixes :
        \E la, lb \in LastOctets, da, db \in DelimiterStyles, ua, ub \in BOOLEAN :
            /\ bssid_a = WriteBssid(p, la, da, ua)
            /\ bssid_b = WriteBssid(p, lb, db, ub)

InGroup(network, i) ==
    \E k \in DOMAIN device_groups[i].nets : device_groups[i].nets[k] = network

\* C11: two well-formed BSSIDs that differ only in the last octet (whatever
\* their letter case and delimiters) get the same non-empty deviceId, and the
\* grouper puts the two detections in the same group.
C11_GroupingStability ==
    (dpc = "done" /\ SameRadio)
        => /\ device_id_a = device_id_b
           /\ device_id_a # <<>>
           /\ \E i \in DOMAIN device_groups : InGroup(DetectionA, i) /\ InGroup(DetectionB, i)

C11_Witness ==
    /\ dpc = "done"
    /\ bssid_a = WriteBssid(DevOctetsA, "f5", [i \in 1..5 |-> ":"], FALSE)
    /\ bssid_b = WriteBssid(DevOctetsA, "f6", [i \in 1..5 |-> "-"], TRUE)
    /\ device_id_a = device_id_b
    /\ Len(device_groups) = 1

(***************************************************************************)
(* InterferenceAnalyzer._auto_detect_target_network, analyze_floor         *)
(***************************************************************************)
\* str.split() without argument: the pieces between blanks, empty ones dropped
SplitBlanks(s) ==
    LET NotEmpty(piece) == piece # <<>>
    IN  SelectSeq(Split(s, " "), NotEmpty)

\* ssid_stats[ssid] of the detections carrying that SSID
SsidCount(nets, ssid) == Cardinality({i \in DOMAIN nets : nets[i].ssid = ssid})
SsidMaxSignal(nets, ssid) ==
    Max2(-100, SetMax({nets[i].signal_strength :
                         i \in {k \in DOMAIN nets : nets[k].ssid = ssid}}))

AutoCandidates_ByCountOnly(nets) ==
    LET Named(n) == n.ssid # <<>> /\ n.ssid # HIDDEN
        named == SelectSeq(nets, Named)
        ssids == FirstSeen([i \in DOMAIN named |-> named[i].ssid], {})
        Frequent(ssid) == SsidCount(nets, ssid) >= 10 /\ SsidMaxSignal(nets, ssid) > -30
        kept == SelectSeq(ssids, Frequent)
    IN  [i \in DOMAIN kept |-> <<kept[i], SsidCount(nets, kept[i])>>]

\* (ssid, score) of the frequent and strong SSIDs, in order of first detection
AutoCandidates(nets) ==
    LET Named(n) == n.ssid # <<>> /\ n.ssid # HIDDEN
        named == SelectSeq(nets, Named)
        ssids == FirstSeen([i \in DOMAIN named |-> named[i].ssid], {})
        Frequent(ssid) == SsidCount(nets, ssid) >= 10 /\ SsidMaxSignal(nets, ssid) > -30
        kept == SelectSeq(ssids, Frequent)
    IN  [i \in DOMAIN kept |->
            <<kept[i], SsidCount(nets, kept[i]) * (100 + SsidMaxSignal(nets, kept[i]))>>]

auto_detect_target_network(target_network_prefixes, nets) ==
    IF target_network_prefixes # <<>> THEN target_network_prefixes
    ELSE LET candidates == SortDesc(AutoCandidates(nets), 2)
         IN  IF candidates = <<>> THEN <<>>
             ELSE LET best_ssid == candidates[1][1]
                      parts == SplitBlanks(ReplaceChar(ReplaceChar(best_ssid, "-", " "),
                                                       "_", " "))
                  IN  IF parts # <<>> THEN <<parts[1]>> ELSE <<>>

RECURSIVE SortedList(_)
\* sorted(set): ascending
SortedList(S) ==
    IF S = {} THEN <<>> ELSE <<SetMin(S)>> \o SortedList(S \ {SetMin(S)})

analyze_channel_usage(nets) ==
    [c \in {nets[i].channel : i \in DOMAIN nets} |->
        Cardinality({i \in DOMAIN nets : nets[i].channel = c})]

AllNetworks(points) == Flatten([i \in DOMAIN points |-> points[i].ap_list])

\* the target prefixes analyze_floor works with
FloorPrefixes(points, name, target_network_prefixes) ==
    IF name # None /\ name[1] # <<>> THEN <<name[1]>>
    ELSE auto_detect_target_network(target_network_prefixes, AllNetworks(points))

\* the reports analyze_floor can return (the overlap lists have no fixed
\* order among entries of equal signal)
analyze_floor(points, name, target_network_prefixes) ==
    LET all_networks == AllNetworks(points)
        prefixes == FloorPrefixes(points, name, target_network_prefixes)
        target_channels == {all_networks[i].channel :
            i \in {k \in DOMAIN all_networks : IsTarget(all_networks[k], prefixes)}}
    IN  {[total_detections |-> Len(all_networks),
          target_network_channels |-> SortedList(target_channels),
          channel_usage |-> analyze_channel_usage(all_networks),
          strong_interferers |-> find_strong_interferers(all_networks, prefixes),
          overlap_interference |-> overlap,
          problem_areas |-> find_problem_areas(points, prefixes)] :
         overlap \in analyze_overlap_interference(all_networks)}

(***************************************************************************)
(* HeatmapGenerator._triangulate_interfering_sources                       *)
(***************************************************************************)
\* strongest non-hidden detection above the threshold, the first of equals
StrongestNetwork(device_networks) ==
    LET Strong(n) == n.ssid # HIDDEN /\ n.signal_strength > interference_threshold
        strong == SelectSeq(device_networks, Strong)
    IN  IF strong = <<>> THEN None
        ELSE Some(strong[CHOOSE i \in DOMAIN strong :
                    /\ \A j \in DOMAIN strong :
                          strong[j].signal_strength <= strong[i].signal_strength
                    /\ \A j \in 1..(i - 1) :
                          strong[j].signal_strength < strong[i].signal_strength])

SurveyTargetDeviceIds(points, prefixes) ==
    UNION {TargetDeviceIds(group_networks_by_device(points[i].ap_list), prefixes) :
             i \in DOMAIN points}

RECURSIVE AddMeasurements(_, _)
\* device_measurements with the entries <<device_id, measurement>> appended
AddMeasurements(device_measurements, entries) ==
    IF entries = <<>> THEN device_measurements
    ELSE LET device_id == Head(entries)[1]
             at == {i \in DOMAIN device_measurements :
                        device_measurements[i].device_id = device_id}
         IN  IF at = {}
             THEN AddMeasurements(
                      Append(device_measurements,
                             [device_id |-> device_id, measurements |-> <<Head(entries)[2]>>]),
                      Tail(entries))
             ELSE LET i == CHOOSE j \in at : TRUE
                  IN  AddMeasurements(
                          [device_measurements EXCEPT
                               ![i].measurements = Append(@, Head(entries)[2])],
                          Tail(entries))

\* the entries one scan point contributes, in device order
PointMeasurements(point, target_device_ids) ==
    LET groups == group_networks_by_device(point.ap_list)
        perDevice == [i \in DOMAIN groups |->
            LET strongest_network == StrongestNetwork(groups[i].nets)
            IN  IF groups[i].device_id \in target_device_ids \/ strongest_network = None
                THEN <<>>
                ELSE << <<groups[i].device_id,
                          <<point.map_x, point.map_y,
                            strongest_network[1].signal_strength,
                            strongest_network[1].ssid>> >> >>]
    IN  Flatten(perDevice)

DeviceMeasurements(points, prefixes) ==
    LET target_device_ids == SurveyTargetDeviceIds(points, prefixes)
    IN  AddMeasurements(<<>>,
            Flatten([i \in DOMAIN points |-> PointMeasurements(points[i], target_device_ids)]))

triangulate_interfering_sources(points, prefixes) ==
    LET device_measurements == DeviceMeasurements(points, prefixes)
        Enough(d) == Len(d.measurements) >= 3
        located == SelectSeq(device_measurements, Enough)
    IN  [i \in DOMAIN located |->
            estimate_interference_source_location(located[i].measurements)]

(***************************************************************************)
(* A survey of one floor                                                   *)
(***************************************************************************)
MaxSurveyPoints == 3

\* the malformed BSSIDs of the survey: five octets, and empty
SurveyMalformed ==
    << <<"0", ":", "a", ":", "b", ":", "c", ":", "d">>, <<>> >>

\* what can be detected at survey point i, in scan order: the target network,
\* two other devices, and a detection with a malformed BSSID (five octets at
\* the odd points, empty at the even ones) that carries the SSID of the first
\* device with a stronger signal on an overlapping channel
Detectable(i) ==
    << APData(SsidTarget, BssidD3, 1, -50),
       APData(SsidOther, BssidD1a, 1, -60),
       APData(SsidOther2, BssidD2, 3, -60),
       APData(SsidOther, SurveyMalformed[2 - (i % 2)], 3, -50) >>

\* the sub-list of s at the chosen indexes
SubList(s, chosen) ==
    LET Kept(i) == i \in chosen
        idx == SelectSeq([i \in DOMAIN s |-> i], Kept)
    IN  [k \in DOMAIN idx |-> s[idx[k]]]

SurveyPointAt(i, ap_list) ==
    [map_x |-> TriPoints[i][1], map_y |-> TriPoints[i][2], ap_list |-> ap_list]

SurveyInit ==
    /\ \E n \in 0..MaxSurveyPoints :
        \E chosen \in [1..n -> SUBSET (1..4)] :
            survey_points = [i \in 1..n |-> SurveyPointAt(i, SubList(Detectable(i), chosen[i]))]
    /\ target_network_name \in {None, Some(TargetPrefix)}
    /\ report = <<>>
    /\ interfering_sources = <<>>
    /\ identified = <<>>
    /\ pixmap = "none"
    /\ svpc = "input"
    \* the components this specification does not run
    /\ signal_a = 0 /\ signal_b = 0 /\ color_a = <<>> /\ color_b = <<>> /\ cpc = "off"
    /\ networks = <<>> /\ target_prefixes = <<>> /\ strong_interferers = <<>> /\ overlap_interference = <<>> /\ apc = "off"
    /\ scan_points = <<>> /\ area_prefixes = <<>> /\ problem_areas = <<>> /\ ppc = "off"
    /\ measurements = <<>> /\ source_location = <<>> /\ tpc = "off"
    /\ width = 0 /\ height = 0 /\ ap_locations = <<>> /\ signal_grid = <<>> /\ row = 0 /\ gpc = "off"
    /\ bssid_a = <<>> /\ bssid_b = <<>> /\ device_id_a = <<>> /\ device_id_b = <<>> /\ device_groups = <<>> /\ dpc = "off"
    /\ floor_scan_points = <<>> /\ before_rescan = <<>> /\ rescanned = <<>> /\ next_id = 0 /\ rescans = 0 /\ rpc = "off"
    /\ status_callback = FALSE /\ ticks = <<>>
    /\ est_measurements = <<>> /\ estimate = <<>> /\ epc = "idle"
    /\ configured_prefixes = <<>> /\ detections = <<>> /\ detected = <<>> /\ adpc = "idle"
    /\ floors = <<>> /\ current_floor = 0 /\ heatmap_enabled = FALSE /\ current_heatmap_network = <<>> /\ heatmap_pixmap = <<>> /\ overlay = <<>> /\ generator_size = <<>> /\ generations = <<>> /\ events = 0
    /\ run = 0 /\ first_run = <<>>

\* the prefixes handed to generate_interference_heatmap
SurveyPrefixes == IF target_network_name = None THEN <<>> ELSE <<target_network_name[1]>>

\* InterferenceAnalyzer().analyze_floor(floor, target_network_name)
AnalyzeFloor ==
    /\ svpc = "input"
    /\ report' \in analyze_floor(survey_points, target_network_name, <<>>)
    /\ svpc' = "analyzed"
    /\ UNCHANGED <<survey_points, target_network_name, interfering_sources, identified,
                   pixmap, colorVars, netVars, areaVars, triVars, gridVars, devVars, rescanVars, progVars, estVars, autoVars, viewVars, repeatVars>>

\* generate_interference_heatmap -> _extract_interference_data
TriangulateInterferingSources ==
    /\ svpc = "input"
    /\ interfering_sources' = triangulate_interfering_sources(survey_points, SurveyPrefixes)
    /\ pixmap' = IF survey_points = <<>> \/ interfering_sources' = <<>>
                 THEN "transparent" ELSE "rendered"
    /\ svpc' = "triangulated"
    /\ UNCHANGED <<survey_points, target_network_name, report, identified,
                   colorVars, netVars, areaVars, triVars, gridVars, devVars, rescanVars, progVars, estVars, autoVars, viewVars, repeatVars>>

SpecSurvey ==
    /\ SurveyInit
    /\ [][AnalyzeFloor \/ TriangulateInterferingSources]_vars

\* the detections of a list whose BSSID is well formed
WellFormedOnly(ap_list) ==
    LET WellFormed(n) == n.bssid \notin Range(SurveyMalformed)
    IN  SelectSeq(ap_list, WellFormed)

\* the survey without its malformed detections
CleanSurvey ==
    [i \in DOMAIN survey_points |->
        [survey_points[i] EXCEPT !.ap_list = WellFormedOnly(@)]]

\* C12: a detection whose BSSID is empty or does not split into six octets
\* gets the empty deviceId, is in no device group and shares a group with no
\* other detection; the strong interferers, the overlap table, the interferers
\* of every problem area and the triangulated sources are those of the survey
\* without the malformed detections.
C12_MalformedExcluded ==
    LET all == AllNetworks(survey_points)
        groups == group_networks_by_device(all)
        prefixes == FloorPrefixes(survey_points, target_network_name, <<>>)
    IN  /\ \A b \in Range(SurveyMalformed) : get_device_id(b) = <<>>
        /\ svpc # "input" =>
            \A i \in DOMAIN groups :
                /\ groups[i].device_id # <<>>
                /\ \A k \in DOMAIN groups[i].nets :
                      groups[i].nets[k].bssid \notin Range(SurveyMalformed)
        /\ svpc = "analyzed" =>
            /\ report.strong_interferers =
                   find_strong_interferers(AllNetworks(CleanSurvey), prefixes)
            /\ report.overlap_interference \in
                   analyze_overlap_interference(AllNetworks(CleanSurvey))
            /\ \A k \in DOMAIN report.problem_areas :
                  \E i \in DOMAIN survey_points :
                      /\ survey_points[i].map_x = report.problem_areas[k].x
                      /\ survey_points[i].map_y = report.problem_areas[k].y
                      /\ LET found == PointInterferers(CleanSurvey[i].ap_list, prefixes)
                         IN  report.problem_areas[k].interferers =
                                 SubSeq(SortDesc(found, 3), 1, Min2(5, Len(found)))
        /\ svpc = "triangulated" =>
            interfering_sources =
                triangulate_interfering_sources(CleanSurvey, SurveyPrefixes)

\* malformed detections at three points, with a strong interferer, a problem
\* area and an overlap entry reported from the well-formed ones
C12_Witness ==
    /\ svpc = "analyzed"
    /\ Len(survey_points) = 3
    /\ \A i \in DOMAIN survey_points :
          \E k \in DOMAIN survey_points[i].ap_list :
              survey_points[i].ap_list[k].bssid = SurveyMalformed[2 - (i % 2)]
    /\ report.problem_areas # <<>>
    /\ DOMAIN report.overlap_interference # {}
    /\ DOMAIN report.strong_interferers # {}

(***************************************************************************)
(* InteractiveMapView._rescan_scan_point, _add_scan_point_at_position,     *)
(* _get_scan_point_at_position                                             *)
(* A ScanPoint object is a record; `id` stands for the object's identity.  *)
(***************************************************************************)
\* the first scan point of the floor within `tolerance` of (x, y), or None
get_scan_point_at_position(points, x, y, tolerance) ==
    LET near == {i \in DOMAIN points :
                    Dist2(x, y, points[i].map_x, points[i].map_y) <= tolerance * tolerance}
    IN  IF near = {} THEN None ELSE Some(points[SetMin(near)])

\* list.remove(obj): the list without the first element that is obj
RemoveObject(points, obj) ==
    LET at == {i \in DOMAIN points : points[i].id = obj.id}
    IN  IF at = {} THEN points
        ELSE [k \in 1..(Len(points) - 1) |->
                IF k < SetMin(at) THEN points[k] ELSE points[k + 1]]

\* the floor's scan points after `if replace_existing:` of _add_scan_point_at_position
RemoveExisting(points, x, y) ==
    LET existing_point == get_scan_point_at_position(points, x, y, 5)
    IN  IF existing_point # None THEN RemoveObject(points, existing_point[1]) ELSE points

\* where survey points are placed: the second position is 5 px from the
\* first, the third a little further, the fourth far away
RescanPositions == {<<100, 100>>, <<103, 104>>, <<104, 104>>, <<200, 100>>}

\* what a scan returns
ScanResults == {<<>>, <<APData(SsidOther, BssidD1a, 1, -60)>>}

MaxFloorPoints == 3
MaxRescans == 2

RescanInit ==
    /\ \E n \in 1..MaxFloorPoints :
        \E at \in [1..n -> RescanPositions], found \in [1..n -> ScanResults] :
            floor_scan_points =
                [i \in 1..n |-> [id |-> i, map_x |-> at[i][1], map_y |-> at[i][2],
                                 ap_list |-> found[i]]]
    /\ before_rescan = <<>>
    /\ rescanned = None
    /\ next_id = Len(floor_scan_points) + 1
    /\ rescans = 0
    /\ rpc = "idle"
    \* the components this specification does not run
    /\ signal_a = 0 /\ signal_b = 0 /\ color_a = <<>> /\ color_b = <<>> /\ cpc = "off"
    /\ networks = <<>> /\ target_prefixes = <<>> /\ strong_interferers = <<>> /\ overlap_interference = <<>> /\ apc = "off"
    /\ scan_points = <<>> /\ area_prefixes = <<>> /\ problem_areas = <<>> /\ ppc = "off"
    /\ measurements = <<>> /\ source_location = <<>> /\ tpc = "off"
    /\ width = 0 /\ height = 0 /\ ap_locations = <<>> /\ signal_grid = <<>> /\ row = 0 /\ gpc = "off"
    /\ bssid_a = <<>> /\ bssid_b = <<>> /\ device_id_a = <<>> /\ device_id_b = <<>> /\ device_groups = <<>> /\ dpc = "off"
    /\ survey_points = <<>> /\ target_network_name = <<>> /\ report = <<>> /\ interfering_sources = <<>> /\ identified = <<>> /\ pixmap = "none" /\ svpc = "off"
    /\ status_callback = FALSE /\ ticks = <<>>
    /\ est_measurements = <<>> /\ estimate = <<>> /\ epc = "idle"
    /\ configured_prefixes = <<>> /\ detections = <<>> /\ detected = <<>> /\ adpc = "idle"
    /\ floors = <<>> /\ current_floor = 0 /\ heatmap_enabled = FALSE /\ current_heatmap_network = <<>> /\ heatmap_pixmap = <<>> /\ overlay = <<>> /\ generator_size = <<>> /\ generations = <<>> /\ events = 0
    /\ run = 0 /\ first_run = <<>>

\* _rescan_scan_point(scan_point) with a live scan that succeeds
RescanSucceeds ==
    /\ rescans < MaxRescans
    /\ \E i \in DOMAIN floor_scan_points, ap_data_list \in ScanResults :
        LET scan_point == floor_scan_points[i]
            x == scan_point.map_x
            y == scan_point.map_y
        IN  /\ rescanned' = Some(scan_point)
            /\ floor_scan_points' =
                   Append(RemoveExisting(floor_scan_points, x, y),
                          [id |-> next_id, map_x |-> x, map_y |-> y,
                           ap_list |-> ap_data_list])
    /\ before_rescan' = floor_scan_points
    /\ next_id' = next_id + 1
    /\ rescans' = rescans + 1
    /\ rpc' = "scanned"
    /\ UNCHANGED <<colorVars, netVars, areaVars, triVars, gridVars, devVars, surveyVars, progVars, estVars, autoVars, viewVars, repeatVars>>

\* _rescan_scan_point(scan_point) when live scanning is off or the scan
\* raises WiFiScanError: the existing point is removed, none is added
RescanFails ==
    /\ rescans < MaxRescans
    /\ \E i \in DOMAIN floor_scan_points :
        LET scan_point == floor_scan_points[i]
        IN  /\ rescanned' = Some(scan_point)
            /\ floor_scan_points' =
                   RemoveExisting(floor_scan_points, scan_point.map_x, scan_point.map_y)
    /\ before_rescan' = floor_scan_points
    /\ rescans' = rescans + 1
    /\ rpc' = "failed"
    /\ UNCHANGED <<next_id, colorVars, netVars, areaVars, triVars, gridVars, devVars,
                   surveyVars, progVars, estVars, autoVars, viewVars, repeatVars>>

SpecRescan ==
    /\ RescanInit
    /\ [][RescanSucceeds \/ RescanFails]_vars

\* C13: after a successful rescan of p, p is gone, one new ScanPoint with p's
\* coordinates was added, every other survey point is still there unchanged
\* and the number of survey points is the same.
C13_RescanReplacesWholesale ==
    rpc = "scanned" =>
        LET p == rescanned[1]
            added == {i \in DOMAIN floor_scan_points :
                        \A k \in DOMAIN before_rescan :
                            before_rescan[k].id # floor_scan_points[i].id}
        IN  /\ \A i \in DOMAIN floor_scan_points : floor_scan_points[i].id # p.id
            /\ Cardinality(added) = 1
            /\ \A i \in added : /\ floor_scan_points[i].map_x = p.map_x
                                /\ floor_scan_points[i].map_y = p.map_y
            /\ \A k \in DOMAIN before_rescan :
                  before_rescan[k].id # p.id =>
                      \E i \in DOMAIN floor_scan_points :
                          floor_scan_points[i] = before_rescan[k]
            /\ Len(floor_scan_points) = Len(before_rescan)

\* C28: a scan that fails (live scanning unavailable, WiFiScanError or any
\* other exception) leaves the floor's scan_points exactly as they were
\* before the operation.
C28_FailedScanChangesNothing ==
    rpc = "failed" => floor_scan_points = before_rescan

(***************************************************************************)
(* Claims about the progress callback                                      *)
(***************************************************************************)
\* C14: with a progress callback and at least one emitter, the callback gets
\* 10 first, then one tick per grid row before the row is computed, starting
\* at 20, never decreasing and below 100, and at last 100 once the grid has
\* been drawn; every tick is in [0, 100] and none is lower than an earlier one.
C14_RowGranularityProgress ==
    (status_callback /\ ap_locations # <<>>) =>
        /\ gpc = "input" => ticks = <<>>
        /\ gpc # "input" => Len(ticks) >= 1 /\ ticks[1] = 10
        /\ gpc = "rows" => Len(ticks) = 1 + row
        /\ gpc = "done" => /\ Len(ticks) = GridHeight + 2
                           /\ ticks[Len(ticks)] = 100
        /\ gpc \in {"rows", "done"} =>
              /\ row >= 1 => ticks[2] = 20
              /\ \A k \in 1..row : 20 <= ticks[1 + k] /\ ticks[1 + k] < 100
        /\ \A i \in DOMAIN ticks : 0 <= ticks[i] /\ ticks[i] <= 100
        /\ \A i, j \in DOMAIN ticks : i < j => ticks[i] <= ticks[j]

\* a grid of three rows, drawn: the ticks were 10, 20, 46, 73, 100
C14_Witness ==
    /\ status_callback
    /\ gpc = "done"
    /\ GridHeight = 3
    /\ ticks = <<10, 20, 46, 73, 100>>

\* pow(10, signal / 10) for the signals of the model: the binary64 values
\* 1e-08, 1e-06 and 1e-05 that the division and pow of the platform return,
\* significands 6044629098073146, 4722366482869645 and 5902958103587057
signal_linear(signal) ==
    CASE signal = -80 -> [m |-> <<3130, 17505, 26171, 171>>, e |-> -79]
      [] signal = -60 -> [m |-> <<28045, 16747, 7134, 134>>, e |-> -72]
      [] signal = -50 -> [m |-> <<26865, 4550, 25302, 167>>, e |-> -69]

\* the loop of _estimate_ap_source_location: <<weighted_x, weighted_y, total_weight>>
RECURSIVE WeightedSums(_, _)
WeightedSums(ms, acc) ==
    IF ms = <<>> THEN acc
    ELSE LET weight == signal_linear(Head(ms).signal)
         IN  WeightedSums(Tail(ms),
                 <<FloatAdd(acc[1], FloatMulNat(Head(ms).x, weight)),
                   FloatAdd(acc[2], FloatMulNat(Head(ms).y, weight)),
                   FloatAdd(acc[3], weight)>>)

estimate_ap_source_location(ms) ==
    IF ms = <<>> THEN None
    ELSE LET strongest_measurement == FirstMax(ms, "signal")
             sums == WeightedSums(ms, <<FloatZero, FloatZero, FloatZero>>)
         IN  IF sums[3] = FloatZero THEN None
             ELSE Some([x |-> FloatDiv(sums[1], sums[3]),
                        y |-> FloatDiv(sums[2], sums[3]),
                        max_signal |-> strongest_measurement.signal])

\* ---------------------------------------------------------------------------
\* One call of _estimate_ap_source_location on a list of measurements.
\* ---------------------------------------------------------------------------
MaxMeasurements == 3
EstPoints == {<<250, 0>>, <<250, 100>>, <<100, 100>>}
EstSignals == {-80, -60, -50}
EstMeasurements == {[x |-> p[1], y |-> p[2], signal |-> s] : p \in EstPoints, s \in EstSignals}

EstInit ==
    /\ \E n \in 0..MaxMeasurements : est_measurements \in [1..n -> EstMeasurements]
    /\ estimate = None
    /\ epc = "input"
    \* the components this specification does not run
    /\ signal_a = 0 /\ signal_b = 0 /\ color_a = <<>> /\ color_b = <<>> /\ cpc = "off"
    /\ networks = <<>> /\ target_prefixes = <<>> /\ strong_interferers = <<>> /\ overlap_interference = <<>> /\ apc = "off"
    /\ scan_points = <<>> /\ area_prefixes = <<>> /\ problem_areas = <<>> /\ ppc = "off"
    /\ measurements = <<>> /\ source_location = <<>> /\ tpc = "off"
    /\ width = 0 /\ height = 0 /\ ap_locations = <<>> /\ signal_grid = <<>> /\ row = 0 /\ gpc = "off"
    /\ bssid_a = <<>> /\ bssid_b = <<>> /\ device_id_a = <<>> /\ device_id_b = <<>> /\ device_groups = <<>> /\ dpc = "off"
    /\ survey_points = <<>> /\ target_network_name = <<>> /\ report = <<>> /\ interfering_sources = <<>> /\ identified = <<>> /\ pixmap = "none" /\ svpc = "off"
    /\ floor_scan_points = <<>> /\ before_rescan = <<>> /\ rescanned = <<>> /\ next_id = 0 /\ rescans = 0 /\ rpc = "off"
    /\ status_callback = FALSE /\ ticks = <<>>
    /\ configured_prefixes = <<>> /\ detections = <<>> /\ detected = <<>> /\ adpc = "idle"
    /\ floors = <<>> /\ current_floor = 0 /\ heatmap_enabled = FALSE /\ current_heatmap_network = <<>> /\ heatmap_pixmap = <<>> /\ overlay = <<>> /\ generator_size = <<>> /\ generations = <<>> /\ events = 0
    /\ run = 0 /\ first_run = <<>>

EstimateApSourceLocation ==
    /\ epc = "input"
    /\ estimate' = estimate_ap_source_location(est_measurements)
    /\ epc' = "done"
    /\ UNCHANGED <<est_measurements, colorVars, netVars, areaVars, triVars, gridVars,
                   devVars, surveyVars, rescanVars, progVars, autoVars, viewVars, repeatVars>>

SpecEstimate == EstInit /\ [][EstimateApSourceLocation]_vars

\* Exact comparisons of the returned floats with the whole-number coordinates
\* of the measurements: everything is scaled by 2^FracBits to whole numbers;
\* a signed whole number is [neg, mag].
FracBits(p) == Max2(0, Max2(0 - p.x.e, 0 - p.y.e))
ScaledFloat(f, k) == ShiftLeft(f.m, f.e + k)
ScaledNat(n, k) == ShiftLeft(BigFromNat(n), k)

SignedDiff(a, b) ==
    IF BigCmp(a, b) >= 0 THEN [neg |-> FALSE, mag |-> BigSub(a, b)]
    ELSE [neg |-> TRUE, mag |-> BigSub(b, a)]

SignedMulInt(s, k) ==
    [neg |-> (k # 0 /\ s.mag # <<>> /\ s.neg # (k < 0)), mag |-> BigMulSmall(s.mag, Abs(k))]

\* -1, 0, 1 as s is below, equal to, above t
SignedCmp(s, t) ==
    IF s.neg /\ t.neg THEN BigCmp(t.mag, s.mag)
    ELSE IF s.neg THEN -1
    ELSE IF t.neg THEN 1
    ELSE BigCmp(s.mag, t.mag)

\* sign of (b - a) x (p - a) for measurement coordinates a, b and the estimate p
CrossSign(a, b, p) ==
    LET k  == FracBits(p)
        dx == SignedDiff(ScaledFloat(p.x, k), ScaledNat(a[1], k))
        dy == SignedDiff(ScaledFloat(p.y, k), ScaledNat(a[2], k))
    IN  SignedCmp(SignedMulInt(dy, b[1] - a[1]), SignedMulInt(dx, b[2] - a[2]))

Cross(a, b, c) == (b[1] - a[1]) * (c[2] - a[2]) - (b[2] - a[2]) * (c[1] - a[1])

InBoundingBox(p, pts) ==
    LET k  == FracBits(p)
        xs == {q[1] : q \in pts}
        ys == {q[2] : q \in pts}
    IN  /\ BigCmp(ScaledNat(SetMin(xs), k), ScaledFloat(p.x, k)) <= 0
        /\ BigCmp(ScaledFloat(p.x, k), ScaledNat(SetMax(xs), k)) <= 0
        /\ BigCmp(ScaledNat(SetMin(ys), k), ScaledFloat(p.y, k)) <= 0
        /\ BigCmp(ScaledFloat(p.y, k), ScaledNat(SetMax(ys), k)) <= 0

\* p is in the convex hull of pts: in the bounding box, and on the inner side
\* of every line through two of the points that has all the points on one side
InConvexHull(p, pts) ==
    /\ InBoundingBox(p, pts)
    /\ \A a, b \in pts :
          (a # b /\ \A c \in pts : Cross(a, b, c) >= 0) => CrossSign(a, b, p) >= 0

EstCoordinates == {<<est_measurements[i].x, est_measurements[i].y>> : i \in DOMAIN est_measurements}

\* C15: for a list of two or more measurements the estimator returns a
\* coordinate, and that coordinate lies within the convex hull (hence within
\* the bounding box) of the measurement coordinates.
C15_ConvexHullContainment ==
    (epc = "done" /\ Len(est_measurements) >= 2) =>
        /\ estimate # None
        /\ InConvexHull(estimate[1], EstCoordinates)

(***************************************************************************)
(* HeatmapGenerator._identify_ap_locations and generate_heatmap            *)
(***************************************************************************)
enough_for_estimate_Any(ms) == Len(ms) >= 1

\* `if len(measurements) < 2: continue`
enough_for_estimate(ms) == Len(ms) >= 2

\* the detections of the scan points that pass the target filter, as entries
\* <<bssid, measurement>> in scan order
NetworkEntries(points, target_network) ==
    LET Wanted(ap) == ~(target_network # None /\ target_network[1] # <<>>
                        /\ ap.ssid # target_network[1])
        OfPoint(point) ==
            LET wanted == SelectSeq(point.ap_list, Wanted)
            IN  [k \in DOMAIN wanted |->
                    <<wanted[k].bssid,
                      [x |-> point.map_x, y |-> point.map_y,
                       signal |-> wanted[k].signal_strength]>>]
    IN  Flatten([i \in DOMAIN points |-> OfPoint(points[i])])

\* the entry of ap_locations for one BSSID, none when the estimate is None
LocatedAt(bssid, estimated_location) ==
    IF estimated_location = None THEN <<>>
    ELSE <<[bssid |-> bssid,
            x |-> estimated_location[1].x,
            y |-> estimated_location[1].y,
            max_signal |-> estimated_location[1].max_signal]>>

identify_ap_locations(points, target_network) ==
    LET network_measurements == AddMeasurements(<<>>, NetworkEntries(points, target_network))
        Located(nm) ==
            IF ~enough_for_estimate(nm.measurements) THEN <<>>
            ELSE LocatedAt(nm.device_id, estimate_ap_source_location(nm.measurements))
    IN  Flatten([i \in DOMAIN network_measurements |-> Located(network_measurements[i])])

\* _create_signal_based_heatmap: the transparent raster without located
\* emitters, otherwise the rendered grid
create_signal_based_heatmap(located) ==
    [ap_locations |-> located,
     pixmap |-> IF located = <<>> THEN "transparent" ELSE "rendered"]

generate_heatmap_NoEmptyCheck(points, target_network) ==
    [ap_locations |-> identify_ap_locations(points, target_network),
     pixmap |-> IF points = <<>> THEN "transparent" ELSE "rendered"]

\* generate_heatmap up to the raster it returns: transparent without scan
\* points or without located emitters, otherwise the rendered grid
generate_heatmap(points, target_network) ==
    IF points = <<>> THEN [ap_locations |-> <<>>, pixmap |-> "transparent"]
    ELSE create_signal_based_heatmap(identify_ap_locations(points, target_network))

(***************************************************************************)
(* A small survey on which the signal heatmap, the interference heatmap    *)
(* and the floor analysis are run                                          *)
(***************************************************************************)
MaxEvidencePoints == 3

\* what can be detected at point i: two devices and a detection with a
\* malformed BSSID
EvidenceDetectable(i) == SubList(Detectable(i), {2, 3, 4})

EvidenceInit ==
    /\ \E n \in 0..MaxEvidencePoints :
        \E chosen \in [1..n -> SUBSET (1..3)] :
            survey_points =
                [i \in 1..n |-> SurveyPointAt(i, SubList(EvidenceDetectable(i), chosen[i]))]
    /\ target_network_name \in {None, Some(SsidOther)}
    /\ report = <<>>
    /\ interfering_sources = <<>>
    /\ identified = None
    /\ pixmap = "none"
    /\ svpc = "input"
    \* the components this specification does not run
    /\ signal_a = 0 /\ signal_b = 0 /\ color_a = <<>> /\ color_b = <<>> /\ cpc = "off"
    /\ networks = <<>> /\ target_prefixes = <<>> /\ strong_interferers = <<>> /\ overlap_interference = <<>> /\ apc = "off"
    /\ scan_points = <<>> /\ area_prefixes = <<>> /\ problem_areas = <<>> /\ ppc = "off"
    /\ measurements = <<>> /\ source_location = <<>> /\ tpc = "off"
    /\ width = 0 /\ height = 0 /\ ap_locations = <<>> /\ signal_grid = <<>> /\ row = 0 /\ gpc = "off"
    /\ bssid_a = <<>> /\ bssid_b = <<>> /\ device_id_a = <<>> /\ device_id_b = <<>> /\ device_groups = <<>> /\ dpc = "off"
    /\ floor_scan_points = <<>> /\ before_rescan = <<>> /\ rescanned = <<>> /\ next_id = 0 /\ rescans = 0 /\ rpc = "off"
    /\ status_callback = FALSE /\ ticks = <<>>
    /\ est_measurements = <<>> /\ estimate = <<>> /\ epc = "idle"
    /\ configured_prefixes = <<>> /\ detections = <<>> /\ detected = <<>> /\ adpc = "idle"
    /\ floors = <<>> /\ current_floor = 0 /\ heatmap_enabled = FALSE /\ current_heatmap_network = <<>> /\ heatmap_pixmap = <<>> /\ overlay = <<>> /\ generator_size = <<>> /\ generations = <<>> /\ events = 0
    /\ run = 0 /\ first_run = <<>>

\* generate_heatmap(scan_points, target_network) on the survey, before or
\* after the interference heatmap
GenerateHeatmap ==
    /\ svpc \in {"input", "triangulated"}
    /\ identified = None
    /\ identified' = Some(generate_heatmap(survey_points, target_network_name))
    /\ UNCHANGED <<survey_points, target_network_name, report, interfering_sources, pixmap,
                   svpc, colorVars, netVars, areaVars, triVars, gridVars, devVars,
                   rescanVars, progVars, estVars, autoVars, viewVars, repeatVars>>

\* InterferenceAnalyzer().analyze_floor(floor, target_network_name) on the
\* survey, before or after the heatmaps
AnalyzeSurveyFloor ==
    /\ svpc \in {"input", "triangulated"}
    /\ report = <<>>
    /\ report' \in analyze_floor(survey_points, target_network_name, <<>>)
    /\ UNCHANGED <<survey_points, target_network_name, interfering_sources, identified,
                   pixmap, svpc, colorVars, netVars, areaVars, triVars, gridVars, devVars,
                   rescanVars, progVars, estVars, autoVars, viewVars, repeatVars>>

SpecEvidence ==
    /\ EvidenceInit
    /\ [][GenerateHeatmap \/ TriangulateInterferingSources \/ AnalyzeSurveyFloor]_vars

\* number of detections of the emitter bssid that pass the target filter
SeenCount(bssid) ==
    Cardinality({e \in DOMAIN NetworkEntries(survey_points, target_network_name) :
                    NetworkEntries(survey_points, target_network_name)[e][1] = bssid})

SurveyBssids == {n.bssid : n \in Range(AllNetworks(survey_points))}

\* the devices of the survey that are not target devices
InterferingDeviceIds ==
    {get_device_id(b) : b \in SurveyBssids}
        \ ({<<>>} \cup SurveyTargetDeviceIds(survey_points, SurveyPrefixes))

\* the scan points with a qualifying measurement of the device: a non-hidden
\* detection of it above the interference threshold
QualifyingPoints(device_id) ==
    {i \in DOMAIN survey_points :
        \E n \in Range(survey_points[i].ap_list) :
            /\ get_device_id(n.bssid) = device_id
            /\ n.ssid # HIDDEN
            /\ n.signal_strength > interference_threshold}

\* the SSIDs under which the device was detected
SsidsOf(device_id) ==
    {n.ssid : n \in {m \in Range(AllNetworks(survey_points)) :
                        get_device_id(m.bssid) = device_id}}

\* C16: an emitter seen in fewer than 2 measurements gets no in-bounds
\* estimate and every emitter seen in 2 or more gets one; an interfering
\* device with 1 or 2 qualifying measurements gets no triangulated source and
\* every interfering device with 3 or more gets one, so no location is made
\* up and the others are still estimated.
C16_InsufficientEvidenceSkipped ==
    /\ identified # None =>
          LET located == identified[1].ap_locations
          IN  \A b \in SurveyBssids :
                  Cardinality({k \in DOMAIN located : located[k].bssid = b})
                      = IF SeenCount(b) >= 2 THEN 1 ELSE 0
    /\ svpc = "triangulated" =>
          /\ \A d \in InterferingDeviceIds :
                Cardinality({k \in DOMAIN interfering_sources :
                                /\ interfering_sources[k].ssid \in SsidsOf(d)
                                /\ interfering_sources[k].measurement_count
                                       = Cardinality(QualifyingPoints(d))})
                    = IF Cardinality(QualifyingPoints(d)) >= 3 THEN 1 ELSE 0
          /\ Len(interfering_sources) =
                Cardinality({d \in InterferingDeviceIds :
                                Cardinality(QualifyingPoints(d)) >= 3})

\* both heatmaps were generated on a survey where one emitter was seen once
\* and another twice, and one interfering device was measured at two points
\* and another at three
C16_Witness ==
    /\ svpc = "triangulated"
    /\ identified # None
    /\ \E a, b \in SurveyBssids : SeenCount(a) = 1 /\ SeenCount(b) >= 2
    /\ \E d, e \in InterferingDeviceIds :
          /\ Cardinality(QualifyingPoints(d)) = 2
          /\ Cardinality(QualifyingPoints(e)) = 3
    /\ Len(identified[1].ap_locations) >= 1
    /\ Len(interfering_sources) = 1

\* C17: on a survey without scan points, or whose scan points carry no
\* detections, generate_heatmap and generate_interference_heatmap return the
\* transparent raster and locate nothing, and analyze_floor returns a report
\* with total_detections = 0 and empty target channels, channel usage, strong
\* interferers, overlap table and problem areas.
C17_EmptyInputNotError ==
    AllNetworks(survey_points) = <<>> =>
        /\ identified # None =>
              /\ identified[1].pixmap = "transparent"
              /\ identified[1].ap_locations = <<>>
        /\ svpc = "triangulated" =>
              /\ pixmap = "transparent"
              /\ interfering_sources = <<>>
        /\ report # <<>> =>
              /\ report.total_detections = 0
              /\ report.target_network_channels = <<>>
              /\ DOMAIN report.channel_usage = {}
              /\ DOMAIN report.strong_interferers = {}
              /\ DOMAIN report.overlap_interference = {}
              /\ report.problem_areas = <<>>

\* both heatmaps and the analysis were run on scan points without detections
C17_Witness ==
    /\ Len(survey_points) >= 2
    /\ AllNetworks(survey_points) = <<>>
    /\ identified # None
    /\ svpc = "triangulated"
    /\ report # <<>>
    /\ report.total_detections = 0
    /\ pixmap = "transparent"

(***************************************************************************)
(* One call of InterferenceAnalyzer._auto_detect_target_network            *)
(***************************************************************************)
\* the SSIDs of the detections: two with tokens, one made of delimiters only
SsidDashed == <<"A", "-", "B">>
SsidSpaced == <<"_", "C", " ", "D">>
SsidBare   == <<"-", "_", " ">>
AutoSsids  == <<SsidDashed, SsidSpaced, SsidBare>>

\* how often an SSID is detected beyond the 10 detections that make it frequent
MaxExtra == 1
AutoCounts == {0, 9, 10} \cup {10 + MaxExtra}
AutoSignals == {-30, -29, -20}

\* count detections of ssid, of which the second has the strongest signal
Block(ssid, count, max_signal) ==
    [k \in 1..count |->
        APData(ssid, BssidD1a, 1, IF k = 2 THEN max_signal ELSE max_signal - 40)]

AutoInit ==
    /\ \E count \in [1..3 -> AutoCounts], strongest \in [1..3 -> AutoSignals],
          order \in {<<1, 2, 3>>, <<3, 2, 1>>}, hidden \in {0, 10} :
          /\ \A i \in 1..3 : count[i] = 0 => strongest[i] = -30
          /\ detections =
                Block(HIDDEN, hidden, -10)
                \o Flatten([k \in 1..3 |->
                      Block(AutoSsids[order[k]], count[order[k]], strongest[order[k]])])
    /\ configured_prefixes \in {<<>>, <<TargetPrefix>>}
    /\ detected = <<>>
    /\ adpc = "input"
    \* the components this specification does not run
    /\ signal_a = 0 /\ signal_b = 0 /\ color_a = <<>> /\ color_b = <<>> /\ cpc = "off"
    /\ networks = <<>> /\ target_prefixes = <<>> /\ strong_interferers = <<>> /\ overlap_interference = <<>> /\ apc = "off"
    /\ scan_points = <<>> /\ area_prefixes = <<>> /\ problem_areas = <<>> /\ ppc = "off"
    /\ measurements = <<>> /\ source_location = <<>> /\ tpc = "off"
    /\ width = 0 /\ height = 0 /\ ap_locations = <<>> /\ signal_grid = <<>> /\ row = 0 /\ gpc = "off"
    /\ bssid_a = <<>> /\ bssid_b = <<>> /\ device_id_a = <<>> /\ device_id_b = <<>> /\ device_groups = <<>> /\ dpc = "off"
    /\ survey_points = <<>> /\ target_network_name = <<>> /\ report = <<>> /\ interfering_sources = <<>> /\ identified = <<>> /\ pixmap = "none" /\ svpc = "off"
    /\ floor_scan_points = <<>> /\ before_rescan = <<>> /\ rescanned = <<>> /\ next_id = 0 /\ rescans = 0 /\ rpc = "off"
    /\ status_callback = FALSE /\ ticks = <<>>
    /\ est_measurements = <<>> /\ estimate = <<>> /\ epc = "idle"
    /\ floors = <<>> /\ current_floor = 0 /\ heatmap_enabled = FALSE /\ current_heatmap_network = <<>> /\ heatmap_pixmap = <<>> /\ overlay = <<>> /\ generator_size = <<>> /\ generations = <<>> /\ events = 0
    /\ run = 0 /\ first_run = <<>>

AutoDetectTargetNetwork ==
    /\ adpc = "input"
    /\ detected' = auto_detect_target_network(configured_prefixes, detections)
    /\ adpc' = "done"
    /\ UNCHANGED <<configured_prefixes, detections, colorVars, netVars, areaVars, triVars,
                   gridVars, devVars, surveyVars, rescanVars, progVars, estVars, viewVars, repeatVars>>

SpecAutoDetect == AutoInit /\ [][AutoDetectTargetNetwork]_vars

\* the named SSIDs that are frequent and strong, and their scores
DetectionsOf(ssid) == {i \in DOMAIN detections : detections[i].ssid = ssid}
DetectionScore(ssid) ==
    Cardinality(DetectionsOf(ssid))
        * (100 + SetMax({detections[i].signal_strength : i \in DetectionsOf(ssid)}))
QualifyingSsids ==
    {ssid \in {detections[i].ssid : i \in DOMAIN detections} \ {<<>>, HIDDEN} :
        /\ Cardinality(DetectionsOf(ssid)) >= 10
        /\ \E i \in DetectionsOf(ssid) : detections[i].signal_strength > -30}
BestSsids ==
    {ssid \in QualifyingSsids :
        \A other \in QualifyingSsids : DetectionScore(other) <= DetectionScore(ssid)}

\* the first token of an SSID between blanks, hyphens and underscores
TokenChars(ssid) == {i \in DOMAIN ssid : ssid[i] \notin {" ", "-", "_"}}
FirstToken(ssid) ==
    LET first == SetMin(TokenChars(ssid))
        last  == SetMax({j \in first..Len(ssid) : \A i \in first..j : i \in TokenChars(ssid)})
    IN  SubSeq(ssid, first, last)

\* C18 as stated: without configured prefixes the result is the one-element
\* list of the first token of an SSID of greatest score among the frequent and
\* strong ones, and the empty list when there is none; with configured prefixes
\* it is those.
C18_TargetAutoDetection ==
    adpc = "done" =>
        IF configured_prefixes # <<>> THEN detected = configured_prefixes
        ELSE IF QualifyingSsids = {} THEN detected = <<>>
        ELSE \E ssid \in BestSsids :
                 TokenChars(ssid) # {} /\ detected = <<FirstToken(ssid)>>

\* C18, amended: the SSID is the first detected among those of greatest score,
\* and the result is the empty list when that SSID has no token.
C18_TargetAutoDetectionTokens ==
    adpc = "done" =>
        IF configured_prefixes # <<>> THEN detected = configured_prefixes
        ELSE IF QualifyingSsids = {} THEN detected = <<>>
        ELSE LET best == CHOOSE ssid \in BestSsids :
                            \A other \in BestSsids :
                                SetMin(DetectionsOf(ssid)) <= SetMin(DetectionsOf(other))
             IN  detected = IF TokenChars(best) = {} THEN <<>> ELSE <<FirstToken(best)>>

\* two frequent and strong SSIDs of different scores, the less frequent one
\* scoring higher, and its first token returned
C18_Witness ==
    /\ adpc = "done"
    /\ configured_prefixes = <<>>
    /\ {SsidDashed, SsidSpaced} \subseteq QualifyingSsids
    /\ Cardinality(DetectionsOf(SsidDashed)) > Cardinality(DetectionsOf(SsidSpaced))
    /\ BestSsids = {SsidSpaced}
    /\ detected = << <<"C">> >>

(***************************************************************************)
(* The overlap table on detections of both bands                           *)
(***************************************************************************)
\* detections of two devices on 2.4 GHz channels, on 5 GHz channels and on the
\* two channels either side of the limit
BandPool == {APData(s, b, c, -60) : s \in {SsidOther, SsidOther2},
                                    b \in {BssidD1a, BssidD2}, c \in {11, 14, 15, 36, 40}}

BandInit ==
    /\ networks \in NetLists(BandPool)
    /\ target_prefixes = <<>>
    /\ strong_interferers = <<>>
    /\ overlap_interference = <<>>
    /\ apc = "input"
    \* the components this specification does not run
    /\ signal_a = 0 /\ signal_b = 0 /\ color_a = <<>> /\ color_b = <<>> /\ cpc = "off"
    /\ scan_points = <<>> /\ area_prefixes = <<>> /\ problem_areas = <<>> /\ ppc = "off"
    /\ measurements = <<>> /\ source_location = <<>> /\ tpc = "off"
    /\ width = 0 /\ height = 0 /\ ap_locations = <<>> /\ signal_grid = <<>> /\ row = 0 /\ gpc = "off"
    /\ bssid_a = <<>> /\ bssid_b = <<>> /\ device_id_a = <<>> /\ device_id_b = <<>> /\ device_groups = <<>> /\ dpc = "off"
    /\ survey_points = <<>> /\ target_network_name = <<>> /\ report = <<>> /\ interfering_sources = <<>> /\ identified = <<>> /\ pixmap = "none" /\ svpc = "off"
    /\ floor_scan_points = <<>> /\ before_rescan = <<>> /\ rescanned = <<>> /\ next_id = 0 /\ rescans = 0 /\ rpc = "off"
    /\ status_callback = FALSE /\ ticks = <<>>
    /\ configured_prefixes = <<>> /\ detections = <<>> /\ detected = <<>> /\ adpc = "idle"
    /\ est_measurements = <<>> /\ estimate = <<>> /\ epc = "idle"
    /\ floors = <<>> /\ current_floor = 0 /\ heatmap_enabled = FALSE /\ current_heatmap_network = <<>> /\ heatmap_pixmap = <<>> /\ overlay = <<>> /\ generator_size = <<>> /\ generations = <<>> /\ events = 0
    /\ run = 0 /\ first_run = <<>>

SpecBands ==
    /\ BandInit
    /\ [][AnalyzeOverlapInterference]_vars

\* C19: _channels_overlap is false for every pair of detected channels of
\* which one is above 14, and the overlap table has no key channel and no
\* interfering channel above 14.
C19_NoOverlapAbove14 ==
    /\ \A i, j \in DOMAIN networks :
          (networks[i].channel > 14 \/ networks[j].channel > 14) =>
              ~channels_overlap(networks[i].channel, networks[j].channel)
    /\ apc = "done" =>
          \A c \in DOMAIN overlap_interference :
              /\ c <= 14
              /\ \A k \in DOMAIN overlap_interference[c] :
                    overlap_interference[c][k][1] <= 14

\* a channel-36 device together with a channel-40 device: no overlap entry
C19_Witness ==
    /\ apc = "done"
    /\ Len(networks) = 2
    /\ networks[1].channel = 36 /\ networks[2].channel = 40
    /\ get_device_id(networks[1].bssid) # get_device_id(networks[2].bssid)
    /\ DOMAIN overlap_interference = {}


(***************************************************************************)
(* The alignment of the grid with the floor                                *)
(***************************************************************************)
\* the floor pixels that _draw_signal_grid paints for the grid's shape: the
\* cell (row, col) is the rectangle of 4 x 4 pixels at (col*4, row*4)
PaintedColumns(grid) ==
    IF grid = <<>> THEN {}
    ELSE 0..(Len(grid[1]) * grid_resolution - 1)
PaintedRows(grid) == 0..(Len(grid) * grid_resolution - 1)

\* C20: for every floor size handed to the grid builder, grid_width * 4 = width
\* and grid_height * 4 = height, and the cells of the grid that was built cover
\* every floor pixel: no strip of the floor is left outside the grid.  Stated
\* for the floors of positive width and height.
C20_GridAlignment ==
    (gpc = "done" /\ width > 0 /\ height > 0) =>
        /\ GridWidth * grid_resolution = width
        /\ GridHeight * grid_resolution = height
        /\ PaintedColumns(signal_grid) = 0..(width - 1)
        /\ PaintedRows(signal_grid) = 0..(height - 1)


(***************************************************************************)
(* The emitters of one device that answers on two BSSIDs                   *)
(***************************************************************************)
\* what can be detected at every point: one network on the two BSSIDs of one
\* radio (they differ in the last octet) and another device
EmitterDetectable ==
    << APData(SsidOther, BssidD1a, 1, -60),
       APData(SsidOther, BssidD1b, 36, -50),
       APData(SsidOther2, BssidD2, 3, -60) >>

EmitterInit ==
    /\ \E n \in 0..MaxEvidencePoints :
        \E chosen \in [1..n -> SUBSET (1..3)] :
            survey_points =
                [i \in 1..n |-> SurveyPointAt(i, SubList(EmitterDetectable, chosen[i]))]
    /\ target_network_name \in {None, Some(SsidOther)}
    /\ report = <<>>
    /\ interfering_sources = <<>>
    /\ identified = None
    /\ pixmap = "none"
    /\ svpc = "input"
    \* the components this specification does not run
    /\ signal_a = 0 /\ signal_b = 0 /\ color_a = <<>> /\ color_b = <<>> /\ cpc = "off"
    /\ networks = <<>> /\ target_prefixes = <<>> /\ strong_interferers = <<>> /\ overlap_interference = <<>> /\ apc = "off"
    /\ scan_points = <<>> /\ area_prefixes = <<>> /\ problem_areas = <<>> /\ ppc = "off"
    /\ measurements = <<>> /\ source_location = <<>> /\ tpc = "off"
    /\ width = 0 /\ height = 0 /\ ap_locations = <<>> /\ signal_grid = <<>> /\ row = 0 /\ gpc = "off"
    /\ bssid_a = <<>> /\ bssid_b = <<>> /\ device_id_a = <<>> /\ device_id_b = <<>> /\ device_groups = <<>> /\ dpc = "off"
    /\ floor_scan_points = <<>> /\ before_rescan = <<>> /\ rescanned = <<>> /\ next_id = 0 /\ rescans = 0 /\ rpc = "off"
    /\ status_callback = FALSE /\ ticks = <<>>
    /\ est_measurements = <<>> /\ estimate = <<>> /\ epc = "idle"
    /\ configured_prefixes = <<>> /\ detections = <<>> /\ detected = <<>> /\ adpc = "idle"
    /\ floors = <<>> /\ current_floor = 0 /\ heatmap_enabled = FALSE /\ current_heatmap_network = <<>> /\ heatmap_pixmap = <<>> /\ overlay = <<>> /\ generator_size = <<>> /\ generations = <<>> /\ events = 0
    /\ run = 0 /\ first_run = <<>>

SpecEmitters == EmitterInit /\ [][GenerateHeatmap]_vars

\* C21: the estimated emitters of a coverage map hold at most one element per
\* deviceId: the measurements of BSSIDs with the same deviceId contribute to
\* one single emitter.
C21_OneEmitterPerDevice ==
    identified # None =>
        LET located == identified[1].ap_locations
        IN  \A i, j \in DOMAIN located :
                get_device_id(located[i].bssid) = get_device_id(located[j].bssid) => i = j


(***************************************************************************)
(* The overlap table on detections that carry their band                   *)
(***************************************************************************)
\* APData.band as the scanner reports it; the 6 GHz band numbers its channels
\* from 1 (5955 MHz), so a 6 GHz detection can carry a channel of 14 or less
Band24 == "2.4 GHz"
Band5 == "5 GHz"
Band6 == "6 GHz"
ChannelsOfBand == {<<1, Band24>>, <<3, Band24>>, <<36, Band5>>, <<1, Band6>>, <<5, Band6>>}

APDataOnBand(ssid, bssid, channel, signal, band) ==
    [ssid |-> ssid, bssid |-> bssid, channel |-> channel, signal_strength |-> signal,
     band |-> band]

TaggedPool == {APDataOnBand(s, b, cb[1], -60, cb[2]) :
                  s \in {SsidOther, SsidOther2}, b \in {BssidD1a, BssidD2},
                  cb \in ChannelsOfBand}

TaggedInit ==
    /\ networks \in NetLists(TaggedPool)
    /\ target_prefixes = <<>>
    /\ strong_interferers = <<>>
    /\ overlap_interference = <<>>
    /\ apc = "input"
    \* the components this specification does not run
    /\ signal_a = 0 /\ signal_b = 0 /\ color_a = <<>> /\ color_b = <<>> /\ cpc = "off"
    /\ scan_points = <<>> /\ area_prefixes = <<>> /\ problem_areas = <<>> /\ ppc = "off"
    /\ measurements = <<>> /\ source_location = <<>> /\ tpc = "off"
    /\ width = 0 /\ height = 0 /\ ap_locations = <<>> /\ signal_grid = <<>> /\ row = 0 /\ gpc = "off"
    /\ bssid_a = <<>> /\ bssid_b = <<>> /\ device_id_a = <<>> /\ device_id_b = <<>> /\ device_groups = <<>> /\ dpc = "off"
    /\ survey_points = <<>> /\ target_network_name = <<>> /\ report = <<>> /\ interfering_sources = <<>> /\ identified = <<>> /\ pixmap = "none" /\ svpc = "off"
    /\ floor_scan_points = <<>> /\ before_rescan = <<>> /\ rescanned = <<>> /\ next_id = 0 /\ rescans = 0 /\ rpc = "off"
    /\ status_callback = FALSE /\ ticks = <<>>
    /\ configured_prefixes = <<>> /\ detections = <<>> /\ detected = <<>> /\ adpc = "idle"
    /\ est_measurements = <<>> /\ estimate = <<>> /\ epc = "idle"
    /\ floors = <<>> /\ current_floor = 0 /\ heatmap_enabled = FALSE /\ current_heatmap_network = <<>> /\ heatmap_pixmap = <<>> /\ overlay = <<>> /\ generator_size = <<>> /\ generations = <<>> /\ events = 0
    /\ run = 0 /\ first_run = <<>>

SpecTagged == TaggedInit /\ [][AnalyzeOverlapInterference]_vars

On24(n) == n.band = Band24

\* C23: no overlap entry is derived from a detection whose band is 5 GHz or
\* 6 GHz, whatever its channel number: the overlap table is a table of the
\* 2.4 GHz detections alone.
C23_OverlapOnly24GHz ==
    apc = "done" =>
        overlap_interference \in analyze_overlap_interference(SelectSeq(networks, On24))


(***************************************************************************)
(* Where the triangulated estimate lies relative to the signal gradient    *)
(***************************************************************************)
\* the measurements the gradient analysis and the triangulation are given
ValidMeasurements ==
    LET filtered == filter_nlos_measurements(measurements)
    IN  IF Len(filtered) < 3 THEN measurements ELSE filtered

\* the measurements of ms on the two sides of the centroid along coordinate k,
\* as <<below, above>>
SidesOf(ms, k) ==
    LET n == Len(ms)
        total == SeqSum([i \in DOMAIN ms |-> ms[i][k]])
    IN  << {i \in DOMAIN ms : n * ms[i][k] < total},
           {i \in DOMAIN ms : n * ms[i][k] > total} >>

RssiSum(ms, side) == SeqSum(SubList([i \in DOMAIN ms |-> ms[i][3]], side))

\* 1 when the mean RSSI above the centroid exceeds the mean below by more
\* than 5 dB, -1 when the mean below exceeds the mean above by more than 5 dB,
\* 0 when the means differ by 5 dB or less or no side has a measurement, and
\* 2 when exactly one side has no measurement (no mean to compare)
StrongerSide(ms, k) ==
    LET sides == SidesOf(ms, k)
        nb == Cardinality(sides[1])
        na == Cardinality(sides[2])
        cross == RssiSum(ms, sides[2]) * nb - RssiSum(ms, sides[1]) * na
    IN  IF nb = 0 /\ na = 0 THEN 0
        ELSE IF nb = 0 \/ na = 0 THEN 2
        ELSE IF cross > 5 * nb * na THEN 1
        ELSE IF 0 - cross > 5 * nb * na THEN -1
        ELSE 0

CoordMin(ms, k) == SetMin({ms[i][k] : i \in DOMAIN ms})
CoordMax(ms, k) == SetMax({ms[i][k] : i \in DOMAIN ms})

\* the estimate coordinate p lies beyond the edge of the bounding box of ms on
\* the side s (1 or -1) of coordinate k, or on it: a centroid coordinate of
\* the model is the floor of the float of the code, and the rounding of that
\* float can put a centroid that lies on the edge 1e-14 px beyond it
BeyondEdge(p, ms, k, s) ==
    IF s = 1 THEN p >= CoordMax(ms, k) ELSE p <= CoordMin(ms, k)

\* the estimate lies beyond an edge nearest to a strongest measurement
BeyondNearestEdge(px, py, ms) ==
    \E i \in DOMAIN ms :
        /\ \A j \in DOMAIN ms : ms[j][3] <= ms[i][3]
        /\ LET to == << <<ms[i][1] - CoordMin(ms, 1), 1, -1>>,
                        <<CoordMax(ms, 1) - ms[i][1], 1, 1>>,
                        <<ms[i][2] - CoordMin(ms, 2), 2, -1>>,
                        <<CoordMax(ms, 2) - ms[i][2], 2, 1>> >>
           IN  \E e \in 1..4 :
                /\ \A f \in 1..4 : to[e][1] <= to[f][1]
                /\ BeyondEdge(IF to[e][2] = 1 THEN px ELSE py, ms, to[e][2], to[e][3])

\* C24: with 3 or more filtered measurements, the estimate lies beyond (or
\* on) the bounding-box edge on the stronger side of every axis whose two
\* sides differ by more than 5 dB in mean RSSI; when neither axis differs by
\* more than 5 dB it lies beyond the edge nearest to the single strongest
\* measurement.  An axis with measurements on one side only has no two means
\* to compare and nothing is required of it.
C24_GradientPlacement ==
    tpc = "done" =>
        LET ms == ValidMeasurements
            sx == StrongerSide(ms, 1)
            sy == StrongerSide(ms, 2)
        IN  /\ sx \in {1, -1} => BeyondEdge(source_location.x, ms, 1, sx)
            /\ sy \in {1, -1} => BeyondEdge(source_location.y, ms, 2, sy)
            /\ (sx = 0 /\ sy = 0) =>
                  BeyondNearestEdge(source_location.x, source_location.y, ms)


(***************************************************************************)
(* What the NLOS filter keeps                                              *)
(***************************************************************************)
\* measurement i of ms is above median + 15 dB
AboveMedian(ms, i) == 2 * ms[i][3] > Median2(ms) + 30

\* measurement i of ms is too strong, by more than the tolerance of 10 dB, for
\* some measurement 50 to 200 px away
ViolatesFalloff(ms, i) ==
    \E j \in DOMAIN ms :
        LET d2 == Dist2(ms[i][1], ms[i][2], ms[j][1], ms[j][2])
        IN  /\ 2500 <= d2 /\ d2 <= 40000
            /\ TooStrongFor(ms[i][3], ms[j][3], d2)

\* the sub-list of ms without the measurements that are above median + 15 dB
\* and violate the falloff, or ms itself when fewer than 3 would remain
ExpectedFiltered(ms) ==
    LET kept == {i \in DOMAIN ms : ~(AboveMedian(ms, i) /\ ViolatesFalloff(ms, i))}
    IN  IF Cardinality(kept) < 3 THEN ms ELSE SubList(ms, kept)

\* C25: for every input of 3 or more measurements the filter returns the
\* input without the measurements that are above median + 15 dB and violate
\* the consistency check, or the unfiltered input if fewer than 3 would
\* remain; the result has at least 3 elements.
C25_NlosFiltering ==
    tpc = "done" =>
        /\ filter_nlos_measurements(measurements) = ExpectedFiltered(measurements)
        /\ Len(filter_nlos_measurements(measurements)) >= 3


(***************************************************************************)
(* The colour of one signal against the anchors of the gradient            *)
(***************************************************************************)
AnchorInit ==
    /\ signal_a \in ColorSignals
    /\ signal_b = signal_a
    /\ color_a = <<>>
    /\ color_b = <<>>
    /\ cpc = "input"
    \* the components this specification does not run
    /\ networks = <<>> /\ target_prefixes = <<>> /\ strong_interferers = <<>> /\ overlap_interference = <<>> /\ apc = "off"
    /\ scan_points = <<>> /\ area_prefixes = <<>> /\ problem_areas = <<>> /\ ppc = "off"
    /\ measurements = <<>> /\ source_location = <<>> /\ tpc = "off"
    /\ width = 0 /\ height = 0 /\ ap_locations = <<>> /\ signal_grid = <<>> /\ row = 0 /\ gpc = "off"
    /\ bssid_a = <<>> /\ bssid_b = <<>> /\ device_id_a = <<>> /\ device_id_b = <<>> /\ device_groups = <<>> /\ dpc = "off"
    /\ survey_points = <<>> /\ target_network_name = <<>> /\ report = <<>> /\ interfering_sources = <<>> /\ identified = <<>> /\ pixmap = "none" /\ svpc = "off"
    /\ floor_scan_points = <<>> /\ before_rescan = <<>> /\ rescanned = <<>> /\ next_id = 0 /\ rescans = 0 /\ rpc = "off"
    /\ status_callback = FALSE /\ ticks = <<>>
    /\ est_measurements = <<>> /\ estimate = <<>> /\ epc = "idle"
    /\ configured_prefixes = <<>> /\ detections = <<>> /\ detected = <<>> /\ adpc = "idle"
    /\ floors = <<>> /\ current_floor = 0 /\ heatmap_enabled = FALSE /\ current_heatmap_network = <<>> /\ heatmap_pixmap = <<>> /\ overlay = <<>> /\ generator_size = <<>> /\ generations = <<>> /\ events = 0
    /\ run = 0 /\ first_run = <<>>

SpecAnchor == AnchorInit /\ [][MapColors]_vars

\* the channel-wise linear interpolation of the anchors p1 and p2 at s
\* (hundredths of a dBm), truncated to whole numbers
LinearBetween(s, p1, p2) ==
    LET s1 == p1[1] * CentiDb
        s2 == p2[1] * CentiDb
    IN  [k \in 1..3 |->
            (p2[k + 1] * (s1 - s2) + (s - s2) * (p1[k + 1] - p2[k + 1])) \div (s1 - s2)]

\* C26: the input is clamped to [-95, -15]; at an anchor the colour is the
\* anchor colour, between two adjacent anchors it is the channel-wise linear
\* interpolation of the two anchor colours truncated to whole numbers, and
\* weaker than -90 dBm it is (0, 0, 255).
C26_AnchorInterpolation ==
    cpc = "mapped" =>
        LET s == Max2(-95 * CentiDb, Min2(-15 * CentiDb, signal_a))
        IN  /\ \A i \in DOMAIN color_points :
                s = color_points[i][1] * CentiDb
                    => color_a = SubSeq(color_points[i], 2, 4)
            /\ \A i \in 1..(Len(color_points) - 1) :
                (color_points[i][1] * CentiDb > s /\ s > color_points[i + 1][1] * CentiDb)
                    => color_a = LinearBetween(s, color_points[i], color_points[i + 1])
            /\ s < -90 * CentiDb => color_a = <<0, 0, 255>>


(***************************************************************************)
(* Problem areas on a floor of several scan points                         *)
(***************************************************************************)
\* one radio (BssidD1a, BssidD1b) that broadcasts the target network and
\* another network, a second target radio, and a foreign radio
FloorPool ==
    { APData(SsidTarget, BssidD1b, 1, -50),
      APData(SsidOther, BssidD1a, 1, -60),
      APData(SsidTarget, BssidD3, 1, -50),
      APData(SsidOther2, BssidD2, 6, -60) }

MaxAreaPoints == 2

FloorAreaInit ==
    /\ \E n \in 1..MaxAreaPoints :
        scan_points \in [1..n -> {[ap_list |-> l] :
                                    l \in UNION {[1..k -> FloorPool] : k \in 0..MaxAps}}]
    /\ area_prefixes = <<TargetPrefix>>
    /\ problem_areas = <<>>
    /\ ppc = "input"
    \* the components this specification does not run
    /\ signal_a = 0 /\ signal_b = 0 /\ color_a = <<>> /\ color_b = <<>> /\ cpc = "off"
    /\ networks = <<>> /\ target_prefixes = <<>> /\ strong_interferers = <<>> /\ overlap_interference = <<>> /\ apc = "off"
    /\ measurements = <<>> /\ source_location = <<>> /\ tpc = "off"
    /\ width = 0 /\ height = 0 /\ ap_locations = <<>> /\ signal_grid = <<>> /\ row = 0 /\ gpc = "off"
    /\ bssid_a = <<>> /\ bssid_b = <<>> /\ device_id_a = <<>> /\ device_id_b = <<>> /\ device_groups = <<>> /\ dpc = "off"
    /\ survey_points = <<>> /\ target_network_name = <<>> /\ report = <<>> /\ interfering_sources = <<>> /\ identified = <<>> /\ pixmap = "none" /\ svpc = "off"
    /\ floor_scan_points = <<>> /\ before_rescan = <<>> /\ rescanned = <<>> /\ next_id = 0 /\ rescans = 0 /\ rpc = "off"
    /\ status_callback = FALSE /\ ticks = <<>>
    /\ est_measurements = <<>> /\ estimate = <<>> /\ epc = "idle"
    /\ configured_prefixes = <<>> /\ detections = <<>> /\ detected = <<>> /\ adpc = "idle"
    /\ floors = <<>> /\ current_floor = 0 /\ heatmap_enabled = FALSE /\ current_heatmap_network = <<>> /\ heatmap_pixmap = <<>> /\ overlay = <<>> /\ generator_size = <<>> /\ generations = <<>> /\ events = 0
    /\ run = 0 /\ first_run = <<>>

SpecFloorAreas == FloorAreaInit /\ [][FindProblemAreas]_vars

\* the devices that broadcast a target-prefixed SSID at some scan point of
\* the floor
FloorTargetDevices ==
    UNION {PointTargetDevices(scan_points[i].ap_list) : i \in DOMAIN scan_points}

\* the detections at a scan point that an interferer entry <<ssid, channel,
\* signal>> of a problem area can stem from
DetectionsOfEntry(ap_list, entry) ==
    {n \in Range(ap_list) : <<n.ssid, n.channel, n.signal_strength>> = entry}

\* C27: a device that broadcasts a target-prefixed SSID at any scan point of
\* the floor is neither listed nor counted as an interferer of a problem area:
\* every listed interferer stems from a device that is no target device of
\* the floor, and a problem area has 2 or more such devices.
C27_TargetDevicesNeverInterferers ==
    ppc = "done" =>
        \A i \in DOMAIN scan_points :
            \A k \in AreasAt(i) :
                /\ \A j \in DOMAIN problem_areas[k].interferers :
                    \E n \in DetectionsOfEntry(scan_points[i].ap_list,
                                               problem_areas[k].interferers[j]) :
                        DeviceOf(n) \notin FloorTargetDevices
                /\ Cardinality(PointInterferingDevices(scan_points[i].ap_list)
                               \ FloorTargetDevices) >= 2


(***************************************************************************)
(* InteractiveMapView: the cached heatmap overlay                          *)
(* A scan point is a number that stands for the ScanPoint object and what  *)
(* it holds; a QPixmap returned by generate_heatmap is the record of what  *)
(* it was generated from.                                                  *)
(***************************************************************************)
\* the floor plan images of the project's two floors (base_pixmap sizes)
FloorImages == <<[width |-> 8, height |-> 8], [width |-> 4, height |-> 8]>>

ViewNetworks == {None, Some(SsidTarget), Some(SsidOther)}

MaxViewPoints == 2
MaxEvents == 4

\* base_pixmap.width(), base_pixmap.height() of the current floor
FloorSize(f) == <<FloorImages[f].width, FloorImages[f].height>>

\* the QPixmap generate_heatmap returns for these arguments and this
\* generator size
Pixmap(f, points, network, size) ==
    Some([floor |-> f, scan_points |-> points, network |-> network,
          width |-> size[1], height |-> size[2]])

\* self.heatmap_pixmap after _update_heatmap() that runs undisturbed
update_heatmap(fl, f, network) ==
    IF f = 0 \/ fl[f].scan_points = <<>>
    THEN None
    ELSE Pixmap(f, fl[f].scan_points, network, FloorSize(f))

\* self.heatmap_pixmap after _draw_heatmap_overlay(painter)
draw_heatmap_overlay(fl, f, network, cached) ==
    IF f = 0 \/ fl[f].scan_points = <<>> THEN cached
    ELSE IF cached = None THEN update_heatmap(fl, f, network)
    ELSE cached

\* the end of a handler of the view: the new floors, floor, switch and
\* network are stored, _update_heatmap() runs if `update`, then _render_map()
\* if `render`; overlay is the pixmap _render_map drew, None if it drew none
ViewStep(fl, f, enabled, network, update, render) ==
    LET updated == IF update THEN update_heatmap(fl, f, network) ELSE heatmap_pixmap
        draws == render /\ enabled /\ f # 0
        cached == IF draws THEN draw_heatmap_overlay(fl, f, network, updated) ELSE updated
    IN  /\ floors' = fl
        /\ current_floor' = f
        /\ heatmap_enabled' = enabled
        /\ current_heatmap_network' = network
        /\ heatmap_pixmap' = cached
        /\ overlay' = IF draws /\ fl[f].scan_points # <<>> THEN cached ELSE None
        /\ generator_size' =
              IF f # 0 /\ fl[f].scan_points # <<>> /\ (update \/ (draws /\ updated = None))
              THEN FloorSize(f) ELSE generator_size
        /\ events' = events + 1
        /\ UNCHANGED <<generations, colorVars, netVars, areaVars, triVars, gridVars, devVars,
                       surveyVars, rescanVars, progVars, estVars, autoVars, repeatVars>>

\* the floors with the scan points of the current floor replaced
WithScanPoints(points) ==
    [floors EXCEPT ![current_floor] = [scan_points |-> points]]

\* a list without its i-th element
WithoutIndex(s, i) == [k \in 1..(Len(s) - 1) |-> IF k < i THEN s[k] ELSE s[k + 1]]

\* the ScanPoint object the next successful scan creates
NewScanPoint == 100 + events

CacheInit ==
    /\ floors \in {<<[scan_points |-> first], [scan_points |-> second]>> :
                        first \in {<<>>, <<1>>}, second \in {<<>>, <<2>>}}
    /\ current_floor = 0
    /\ heatmap_enabled = FALSE
    /\ current_heatmap_network = None
    /\ heatmap_pixmap = None
    /\ overlay = None
    /\ generator_size = <<800, 600>>
    /\ generations = <<>>
    /\ events = 0
    \* the components this specification does not run
    /\ signal_a = 0 /\ signal_b = 0 /\ color_a = <<>> /\ color_b = <<>> /\ cpc = "off"
    /\ networks = <<>> /\ target_prefixes = <<>> /\ strong_interferers = <<>> /\ overlap_interference = <<>> /\ apc = "off"
    /\ scan_points = <<>> /\ area_prefixes = <<>> /\ problem_areas = <<>> /\ ppc = "off"
    /\ measurements = <<>> /\ source_location = <<>> /\ tpc = "off"
    /\ width = 0 /\ height = 0 /\ ap_locations = <<>> /\ signal_grid = <<>> /\ row = 0 /\ gpc = "off"
    /\ bssid_a = <<>> /\ bssid_b = <<>> /\ device_id_a = <<>> /\ device_id_b = <<>> /\ device_groups = <<>> /\ dpc = "off"
    /\ survey_points = <<>> /\ target_network_name = <<>> /\ report = <<>> /\ interfering_sources = <<>> /\ identified = <<>> /\ pixmap = "none" /\ svpc = "off"
    /\ floor_scan_points = <<>> /\ before_rescan = <<>> /\ rescanned = <<>> /\ next_id = 0 /\ rescans = 0 /\ rpc = "off"
    /\ status_callback = FALSE /\ ticks = <<>>
    /\ est_measurements = <<>> /\ estimate = <<>> /\ epc = "idle"
    /\ configured_prefixes = <<>> /\ detections = <<>> /\ detected = <<>> /\ adpc = "idle"
    /\ run = 0 /\ first_run = <<>>

\* set_floor(floor)
SetFloor ==
    /\ events < MaxEvents
    /\ \E f \in DOMAIN FloorImages :
        ViewStep(floors, f, heatmap_enabled, current_heatmap_network, FALSE, TRUE)

\* set_heatmap_enabled(enabled)
SetHeatmapEnabled ==
    /\ events < MaxEvents
    /\ \E enabled \in BOOLEAN :
        /\ heatmap_enabled # enabled
        /\ ViewStep(floors, current_floor, enabled, current_heatmap_network, enabled, TRUE)

\* set_heatmap_network(network_ssid)
SetHeatmapNetwork ==
    /\ events < MaxEvents
    /\ \E network_ssid \in ViewNetworks :
        /\ current_heatmap_network # network_ssid
        /\ ViewStep(floors, current_floor, heatmap_enabled, network_ssid,
                    heatmap_enabled, heatmap_enabled)

\* set_heatmap_network_and_enable(network_ssid, enabled)
SetHeatmapNetworkAndEnable ==
    /\ events < MaxEvents
    /\ \E network_ssid \in ViewNetworks, enabled \in BOOLEAN :
        LET network_changed == current_heatmap_network # network_ssid
            enabled_changed == heatmap_enabled # enabled
            generate == (network_changed \/ enabled_changed) /\ enabled
        IN  ViewStep(floors, current_floor, enabled, network_ssid, generate, generate)

\* _add_scan_point_at_position(x, y) with a scan that succeeds
AddScanPoint ==
    /\ events < MaxEvents
    /\ current_floor # 0
    /\ Len(floors[current_floor].scan_points) < MaxViewPoints
    /\ ViewStep(WithScanPoints(Append(floors[current_floor].scan_points, NewScanPoint)),
                current_floor, heatmap_enabled, current_heatmap_network,
                heatmap_enabled, TRUE)

\* _rescan_scan_point(scan_point) with a scan that succeeds
RescanScanPoint ==
    /\ events < MaxEvents
    /\ current_floor # 0
    /\ \E i \in DOMAIN floors[current_floor].scan_points :
        ViewStep(WithScanPoints(Append(WithoutIndex(floors[current_floor].scan_points, i),
                                       NewScanPoint)),
                 current_floor, heatmap_enabled, current_heatmap_network,
                 heatmap_enabled, TRUE)

\* _rescan_scan_point(scan_point) with a scan that fails
RescanScanPointFails ==
    /\ events < MaxEvents
    /\ current_floor # 0
    /\ \E i \in DOMAIN floors[current_floor].scan_points :
        ViewStep(WithScanPoints(WithoutIndex(floors[current_floor].scan_points, i)),
                 current_floor, heatmap_enabled, current_heatmap_network, FALSE, FALSE)

\* _remove_scan_point(scan_point)
RemoveScanPoint ==
    /\ events < MaxEvents
    /\ current_floor # 0
    /\ \E i \in DOMAIN floors[current_floor].scan_points :
        ViewStep(WithScanPoints(WithoutIndex(floors[current_floor].scan_points, i)),
                 current_floor, heatmap_enabled, current_heatmap_network,
                 heatmap_enabled, TRUE)

\* clear_all_scan_points()
ClearAllScanPoints ==
    /\ events < MaxEvents
    /\ current_floor # 0
    /\ ViewStep(WithScanPoints(<<>>), current_floor, heatmap_enabled,
                current_heatmap_network, heatmap_enabled, TRUE)

SpecCache ==
    /\ CacheInit
    /\ [][SetFloor \/ SetHeatmapEnabled \/ SetHeatmapNetwork \/ SetHeatmapNetworkAndEnable
          \/ AddScanPoint \/ RescanScanPoint \/ RescanScanPointFails \/ RemoveScanPoint
          \/ ClearAllScanPoints]_vars

\* C29: whenever _render_map draws the heatmap overlay, the pixmap it draws
\* was generated from the current floor's current scan_points, the current
\* floor's dimensions and the currently selected network.
C29_HeatmapCacheCoherence ==
    overlay # None =>
        overlay = Pixmap(current_floor, floors[current_floor].scan_points,
                         current_heatmap_network, FloorSize(current_floor))


(***************************************************************************)
(* InteractiveMapView._update_heatmap step by step                         *)
(* _update_heatmap and the progress callback run QApplication.processEvents*)
(* so a handler of the view can start while a generation is running.       *)
(* generations is the stack of the _update_heatmap calls that have not     *)
(* returned; the last one is the one that runs.                            *)
(***************************************************************************)
MaxDepth == 2

\* the running generation waits in processEvents, or none is running
InEventLoop ==
    IF generations = <<>> THEN TRUE
    ELSE generations[Len(generations)].pc \in {"status", "ten", "rows", "hundred"}

\* the frame of _update_heatmap up to its processEvents call
NewGeneration ==
    [pc |-> "status", floor |-> 0, scan_points |-> <<>>, network |-> None,
     pixmap_size |-> <<0, 0>>, grid_size |-> <<0, 0>>, row |-> 0, row_widths |-> <<>>]

\* what a handler finds when it draws the overlay with the cache `cached`
DrawnOverlay(fl, f, cached) ==
    IF heatmap_enabled /\ fl[f].scan_points # <<>> THEN cached ELSE None

\* a handler of the view stores the new floors, floor and network and
\* calls _update_heatmap(); the call returns at once when the floor has no
\* scan points, and the handler then renders the map
BeginUpdate(fl, f, network) ==
    /\ floors' = fl
    /\ current_floor' = f
    /\ current_heatmap_network' = network
    /\ events' = events + 1
    /\ IF fl[f].scan_points = <<>>
       THEN /\ heatmap_pixmap' = None
            /\ overlay' = None
            /\ UNCHANGED <<generations, generator_size>>
       ELSE /\ generator_size' = FloorSize(f)
            /\ generations' = Append(generations, NewGeneration)
            /\ UNCHANGED <<heatmap_pixmap, overlay>>
    /\ UNCHANGED <<heatmap_enabled, colorVars, netVars, areaVars, triVars, gridVars, devVars,
                   surveyVars, rescanVars, progVars, estVars, autoVars, repeatVars>>

\* the view shows floor 1 with the heatmap switched on
ReentrantInit ==
    /\ floors \in {<<[scan_points |-> first], [scan_points |-> second]>> :
                        first \in {<<1>>, <<1, 2>>}, second \in {<<>>, <<3>>}}
    /\ current_floor = 1
    /\ heatmap_enabled = TRUE
    /\ current_heatmap_network = None
    /\ heatmap_pixmap = Pixmap(1, floors[1].scan_points, None, FloorSize(1))
    /\ overlay = heatmap_pixmap
    /\ generator_size = FloorSize(1)
    /\ generations = <<>>
    /\ events = 0
    \* the components this specification does not run
    /\ signal_a = 0 /\ signal_b = 0 /\ color_a = <<>> /\ color_b = <<>> /\ cpc = "off"
    /\ networks = <<>> /\ target_prefixes = <<>> /\ strong_interferers = <<>> /\ overlap_interference = <<>> /\ apc = "off"
    /\ scan_points = <<>> /\ area_prefixes = <<>> /\ problem_areas = <<>> /\ ppc = "off"
    /\ measurements = <<>> /\ source_location = <<>> /\ tpc = "off"
    /\ width = 0 /\ height = 0 /\ ap_locations = <<>> /\ signal_grid = <<>> /\ row = 0 /\ gpc = "off"
    /\ bssid_a = <<>> /\ bssid_b = <<>> /\ device_id_a = <<>> /\ device_id_b = <<>> /\ device_groups = <<>> /\ dpc = "off"
    /\ survey_points = <<>> /\ target_network_name = <<>> /\ report = <<>> /\ interfering_sources = <<>> /\ identified = <<>> /\ pixmap = "none" /\ svpc = "off"
    /\ floor_scan_points = <<>> /\ before_rescan = <<>> /\ rescanned = <<>> /\ next_id = 0 /\ rescans = 0 /\ rpc = "off"
    /\ status_callback = FALSE /\ ticks = <<>>
    /\ est_measurements = <<>> /\ estimate = <<>> /\ epc = "idle"
    /\ configured_prefixes = <<>> /\ detections = <<>> /\ detected = <<>> /\ adpc = "idle"
    /\ run = 0 /\ first_run = <<>>

\* the user selects a network: set_heatmap_network(network_ssid)
SelectNetwork ==
    /\ InEventLoop
    /\ events < MaxEvents
    /\ Len(generations) < MaxDepth
    /\ \E network_ssid \in ViewNetworks :
        /\ current_heatmap_network # network_ssid
        /\ BeginUpdate(floors, current_floor, network_ssid)

\* the user removes a survey point: _remove_scan_point(scan_point)
RemovePoint ==
    /\ InEventLoop
    /\ events < MaxEvents
    /\ Len(generations) < MaxDepth
    /\ \E i \in DOMAIN floors[current_floor].scan_points :
        BeginUpdate(WithScanPoints(WithoutIndex(floors[current_floor].scan_points, i)),
                    current_floor, current_heatmap_network)

\* the user switches the floor: set_floor(floor); _render_map generates a
\* heatmap only when none is cached
SwitchFloor ==
    /\ InEventLoop
    /\ events < MaxEvents
    /\ Len(generations) < MaxDepth
    /\ \E f \in DOMAIN FloorImages :
        IF heatmap_pixmap = None /\ floors[f].scan_points # <<>>
        THEN BeginUpdate(floors, f, current_heatmap_network)
        ELSE /\ current_floor' = f
             /\ overlay' = DrawnOverlay(floors, f, heatmap_pixmap)
             /\ events' = events + 1
             /\ UNCHANGED <<floors, heatmap_enabled, current_heatmap_network, heatmap_pixmap,
                            generator_size, generations,
                            colorVars, netVars, areaVars, triVars, gridVars, devVars,
                            surveyVars, rescanVars, progVars, estVars, autoVars, repeatVars>>

\* the running generation after a step that leaves it in state `frame`
Resume(frame) ==
    /\ generations' = [generations EXCEPT ![Len(generations)] = frame]
    /\ UNCHANGED <<floors, current_floor, heatmap_enabled, current_heatmap_network,
                   heatmap_pixmap, overlay, generator_size, events,
                   colorVars, netVars, areaVars, triVars, gridVars, devVars,
                   surveyVars, rescanVars, progVars, estVars, autoVars, repeatVars>>

\* processEvents of _update_heatmap returns: generate_heatmap is called with
\* the floor's scan points and the selected network as they are now,
\* _identify_ap_locations reads the scan points, QPixmap(self.width,
\* self.height) is created and status_callback(10) runs processEvents
CallGenerate ==
    /\ generations # <<>>
    /\ LET frame == generations[Len(generations)]
       IN  /\ frame.pc = "status"
           /\ Resume([frame EXCEPT
                        !.pc = IF floors[current_floor].scan_points = <<>>
                               THEN "built" ELSE "ten",
                        !.floor = current_floor,
                        !.scan_points = floors[current_floor].scan_points,
                        !.network = current_heatmap_network,
                        !.pixmap_size = generator_size])

\* _create_signal_strength_grid starts: grid_width and grid_height are read
\* from the generator, and the callback of row 0 runs processEvents
BeginGrid ==
    /\ generations # <<>>
    /\ LET frame == generations[Len(generations)]
           grid_width == generator_size[1] \div grid_resolution
           grid_height == generator_size[2] \div grid_resolution
       IN  /\ frame.pc = "ten"
           /\ Resume([frame EXCEPT
                        !.pc = IF grid_height = 0 THEN "hundred" ELSE "rows",
                        !.grid_size = <<grid_width, grid_height>>])

\* one row of the grid is computed over range(grid_width); then the callback
\* of the next row, or after the last row status_callback(100), runs
\* processEvents
ComputeRow ==
    /\ generations # <<>>
    /\ LET frame == generations[Len(generations)]
       IN  /\ frame.pc = "rows"
           /\ Resume([frame EXCEPT
                        !.pc = IF frame.row + 1 = frame.grid_size[2]
                               THEN "hundred" ELSE "rows",
                        !.row = frame.row + 1,
                        !.row_widths = Append(frame.row_widths, frame.grid_size[1])])

\* generate_heatmap returns, _update_heatmap stores the pixmap and returns,
\* and the handler that called it renders the map
ReturnHeatmap ==
    /\ generations # <<>>
    /\ LET frame == generations[Len(generations)]
           generated == Pixmap(frame.floor, frame.scan_points, frame.network,
                               frame.pixmap_size)
       IN  /\ frame.pc \in {"hundred", "built"}
           /\ heatmap_pixmap' = generated
           /\ overlay' = DrawnOverlay(floors, current_floor, generated)
    /\ generations' = SubSeq(generations, 1, Len(generations) - 1)
    /\ UNCHANGED <<floors, current_floor, heatmap_enabled, current_heatmap_network,
                   generator_size, events,
                   colorVars, netVars, areaVars, triVars, gridVars, devVars,
                   surveyVars, rescanVars, progVars, estVars, autoVars, repeatVars>>

SpecReentrant ==
    /\ ReentrantInit
    /\ [][SelectNetwork \/ RemovePoint \/ SwitchFloor \/ CallGenerate \/ BeginGrid
          \/ ComputeRow \/ ReturnHeatmap]_vars

\* C30: once every generation has returned, the cached heatmap_pixmap is the
\* one generated for the latest selected network and for the latest survey
\* points of its floor (an older generation never overwrites a newer result),
\* and every generation computes all its rows with one width and one height.
C30_ReentrancySafety ==
    /\ (generations = <<>> /\ heatmap_pixmap # None) =>
          /\ heatmap_pixmap[1].network = current_heatmap_network
          /\ heatmap_pixmap[1].scan_points = floors[heatmap_pixmap[1].floor].scan_points
    /\ \A g \in DOMAIN generations :
          /\ Len(generations[g].row_widths) = generations[g].row
          /\ generations[g].row <= generations[g].grid_size[2]
          /\ \A k \in DOMAIN generations[g].row_widths :
                generations[g].row_widths[k] = generations[g].grid_size[1]


(***************************************************************************)
(* Coverage-map generation run twice on the same HeatmapGenerator          *)
(* The generator keeps self.width and self.height between the runs;        *)
(* ap_locations, signal_grid and row are locals of each run.               *)
(***************************************************************************)
MaxRunPoints == 3

\* where the scan points of the survey are: the cell centres of an 8 x 8 floor
RunPointXY(i) == <<2 + 4 * ((i - 1) % 2), 2 + 4 * (((i - 1) \div 2) % 2)>>

\* what can be detected at scan point i
RunDetectable(i) ==
    << APData(SsidTarget, BssidD3, 1, IF i % 2 = 1 THEN -50 ELSE -60),
       APData(SsidOther, BssidD1a, 1, -60) >>

\* an entry of ap_locations as _calculate_signal_at_point reads it: the grid
\* measures distances over whole pixels, so the emitter is taken at the pixel
\* that holds its estimated location; the detections of the survey carry the
\* band '2.4 GHz'
GridEmitter(located) ==
    [x |-> FloatTrunc(located.x), y |-> FloatTrunc(located.y),
     max_signal |-> located.max_signal, band |-> "2.4 GHz"]

\* mutant: the second run keeps emitters that were measured once
IdentifiedEmitters_SecondRunKeepsAll(points, target_network) ==
    IF run = 2
    THEN LET all == AddMeasurements(<<>>, NetworkEntries(points, target_network))
             Located(nm) == LocatedAt(nm.device_id, estimate_ap_source_location(nm.measurements))
             found == Flatten([i \in DOMAIN all |-> Located(all[i])])
         IN  [i \in DOMAIN found |-> GridEmitter(found[i])]
    ELSE LET found == identify_ap_locations(points, target_network)
         IN  [i \in DOMAIN found |-> GridEmitter(found[i])]

\* ap_locations = self._identify_ap_locations(scan_points, target_network, floor)
IdentifiedEmitters(points, target_network) ==
    LET found == identify_ap_locations(points, target_network)
    IN  [i \in DOMAIN found |-> GridEmitter(found[i])]

RepeatInit ==
    /\ \E n \in 0..MaxRunPoints :
        \E chosen \in [1..n -> SUBSET (1..2)] :
            survey_points =
                [i \in 1..n |-> [map_x |-> RunPointXY(i)[1], map_y |-> RunPointXY(i)[2],
                                 ap_list |-> SubList(RunDetectable(i), chosen[i])]]
    /\ target_network_name \in {None, Some(SsidTarget)}
    /\ width = 8
    /\ height \in {0, 8}
    /\ ap_locations = <<>>
    /\ signal_grid = <<>>
    /\ row = 0
    /\ gpc = "identify"
    /\ run = 1
    /\ first_run = None
    /\ status_callback = FALSE /\ ticks = <<>>
    \* the components this specification does not run
    /\ signal_a = 0 /\ signal_b = 0 /\ color_a = <<>> /\ color_b = <<>> /\ cpc = "off"
    /\ networks = <<>> /\ target_prefixes = <<>> /\ strong_interferers = <<>> /\ overlap_interference = <<>> /\ apc = "off"
    /\ scan_points = <<>> /\ area_prefixes = <<>> /\ problem_areas = <<>> /\ ppc = "off"
    /\ measurements = <<>> /\ source_location = <<>> /\ tpc = "off"
    /\ bssid_a = <<>> /\ bssid_b = <<>> /\ device_id_a = <<>> /\ device_id_b = <<>> /\ device_groups = <<>> /\ dpc = "off"
    /\ report = <<>> /\ interfering_sources = <<>> /\ identified = <<>> /\ pixmap = "none" /\ svpc = "off"
    /\ floor_scan_points = <<>> /\ before_rescan = <<>> /\ rescanned = <<>> /\ next_id = 0 /\ rescans = 0 /\ rpc = "off"
    /\ est_measurements = <<>> /\ estimate = <<>> /\ epc = "idle"
    /\ configured_prefixes = <<>> /\ detections = <<>> /\ detected = <<>> /\ adpc = "idle"
    /\ floors = <<>> /\ current_floor = 0 /\ heatmap_enabled = FALSE /\ current_heatmap_network = <<>> /\ heatmap_pixmap = <<>> /\ overlay = <<>> /\ generator_size = <<>> /\ generations = <<>> /\ events = 0

\* _create_signal_based_heatmap up to `if not ap_locations`
IdentifyApLocations ==
    /\ gpc = "identify"
    /\ ap_locations' = IdentifiedEmitters(survey_points, target_network_name)
    /\ gpc' = "input"
    /\ UNCHANGED <<width, height, signal_grid, row, colorVars, netVars, areaVars, triVars,
                   devVars, surveyVars, rescanVars, progVars, estVars, autoVars, viewVars,
                   repeatVars>>

\* the first run has returned and generation is called again with the same
\* survey, network and floor; what the locals of the first run held is
\* remembered in first_run
RunAgain ==
    /\ run = 1
    /\ gpc \in {"done", "empty", "error"}
    /\ first_run' = Some([ap_locations |-> ap_locations, signal_grid |-> signal_grid,
                          gpc |-> gpc])
    /\ run' = 2
    /\ row' = 0
    /\ gpc' = "identify"
    /\ UNCHANGED <<width, height, ap_locations, signal_grid, colorVars, netVars, areaVars,
                   triVars, devVars, surveyVars, rescanVars, progVars, estVars, autoVars,
                   viewVars>>

SpecRepeat ==
    /\ RepeatInit
    /\ [][IdentifyApLocations \/ ReturnEmptyHeatmap \/ StartGrid \/ GridRow \/ FinishGrid
          \/ RunAgain]_vars

====
